---------------------------- MODULE Spec2Model ----------------------------
(***************************************************************************)
(* A model of smartini's slotted document model and of its reader          *)
(* (_ReadIni in src/src/smartini/interface.py).                            *)
(*                                                                         *)
(* Text is modelled character by character: a line, a key, a section name  *)
(* and a raw value are sequences of one-character strings, so that the     *)
(* extractors, the multiline-prefix removal and the type conversion are    *)
(* computed as the code computes them.  An ordered dictionary (the slot    *)
(* store) is a sequence of records [k |-> key, v |-> value] in insertion   *)
(* order.  A Python None that stands where text is expected is the         *)
(* sentinel None below, which no text of the model equals.                 *)
(*                                                                         *)
(* Objects are identified by what the code looks them up by: a Section by  *)
(* its name, an Option by its key, a Comment by the number in its          *)
(* attribute name (_COMMENT_<n>).                                          *)
(***************************************************************************)
EXTENDS Integers, Sequences, FiniteSets, TLC

\* ------------------------------------------------------------------ bounds

\* Number of read_ini calls in one behaviour.
MaxReads == 2

\* Number of entities handled in one behaviour: the lines read, over all
\* documents, and the entities passed in calls of add_entity and
\* set_option where a behaviour makes such calls.
MaxEntities == 4

\* ------------------------------------------------------------ characters

None == <<"None">>

WordChars ==
    {"a", "c", "n", "t", "u", "x", "y", "0", "1", "2", "_"}

Digits == {"0", "1", "2"}

Whitespace == {" ", "\t"}

IsWord(c) == c \in WordChars

\* The characters of an option key: [\w\.\-\_]
IsKeyChar(c) == c \in WordChars \cup {".", "-"}

Last(s) == s[Len(s)]

RECURSIVE LStrip(_)
LStrip(s) ==
    IF s # <<>> /\ Head(s) \in Whitespace THEN LStrip(Tail(s)) ELSE s

RECURSIVE RStrip(_)
RStrip(s) ==
    IF s # <<>> /\ Last(s) \in Whitespace
    THEN RStrip(SubSeq(s, 1, Len(s) - 1))
    ELSE s

\* str.strip()
Strip(s) == RStrip(LStrip(s))

RECURSIVE LStripChar(_, _)
LStripChar(s, c) ==
    IF s # <<>> /\ Head(s) = c THEN LStripChar(Tail(s), c) ELSE s

RECURSIVE RStripChar(_, _)
RStripChar(s, c) ==
    IF s # <<>> /\ Last(s) = c
    THEN RStripChar(SubSeq(s, 1, Len(s) - 1), c)
    ELSE s

RECURSIVE RemoveChar(_, _)
RemoveChar(s, c) ==
    IF s = <<>> THEN <<>>
    ELSE IF Head(s) = c THEN RemoveChar(Tail(s), c)
    ELSE <<Head(s)>> \o RemoveChar(Tail(s), c)

StartsWith(s, p) == Len(s) >= Len(p) /\ SubSeq(s, 1, Len(p)) = p

\* _str_to_var: every non-word character becomes "_", and a name that
\* starts with a digit or with the internal prefix "_" is prefixed with "s_".
StrToVar(s) ==
    LET w == [i \in 1..Len(s) |-> IF IsWord(s[i]) THEN s[i] ELSE "_"]
    IN  IF w # <<>> /\ (w[1] \in Digits \/ w[1] = "_")
        THEN <<"s", "_">> \o w
        ELSE w

\* UNNAMED_SECTION_NAME, the attribute name of the section with no name.
UNNAMED_SECTION_NAME == <<"_", "U", "N", "N", "A", "M", "E", "D">>

\* ------------------------------------------------------ ordered dictionary

Keys(od) == [i \in 1..Len(od) |-> od[i].k]

HasKey(od, k) == \E i \in 1..Len(od) : od[i].k = k

Get(od, k) == od[CHOOSE i \in 1..Len(od) : od[i].k = k].v

\* self[k] = v: replaces the value in place, or appends a new key.
Put(od, k, v) ==
    IF HasKey(od, k)
    THEN [i \in 1..Len(od) |-> IF od[i].k = k THEN [k |-> k, v |-> v] ELSE od[i]]
    ELSE Append(od, [k |-> k, v |-> v])

\* Slots.add(key, exist_ok=True) with the default value: an existing slot
\* keeps its value and its place.
AddSlot(od, k, default) ==
    IF HasKey(od, k) THEN od ELSE Append(od, [k |-> k, v |-> default])

\* ------------------------------------------------------------ parameters

\* Parameters(): comment_prefixes=";" and option_delimiters="=".
CommentPrefixes == {";"}

OptionDelimiters == {"="}

MarkerClasses == {"section_name", "option_delimiter", "comment_prefix"}

\* Parameters(): the defaults of the read parameters.  multiline_prefix
\* None is stored as the empty text.
Parameters ==
    [ multiline_allowed |-> TRUE,
      multiline_prefix |-> <<>>,
      multiline_ignore |-> {},
      ignore_whitespace_lines |-> TRUE,
      read_undefined |-> "False" ]

\* The read parameters a Schema is constructed with: the defaults, the
\* defaults with one parameter changed (the multiline prefix to the marker
\* ">", the ignore list to one marker class), and whitespace lines kept
\* together with multiline disabled.
ParameterChoices ==
    { Parameters,
      [Parameters EXCEPT !.multiline_allowed = FALSE],
      [Parameters EXCEPT !.multiline_prefix = <<">">>],
      [Parameters EXCEPT !.ignore_whitespace_lines = FALSE],
      [Parameters EXCEPT !.ignore_whitespace_lines = FALSE,
                         !.multiline_allowed = FALSE] }
    \cup { [Parameters EXCEPT !.multiline_ignore = {m}] : m \in MarkerClasses }
    \cup { [Parameters EXCEPT !.read_undefined = r] :
               r \in {"True", "section", "option"} }

\* ---------------------------------------------------------- type converter

RECURSIVE DigitsValue(_)
DigitsValue(s) ==
    IF s = <<>> THEN 0
    ELSE 10 * DigitsValue(SubSeq(s, 1, Len(s) - 1))
         + (CASE Last(s) = "0" -> 0 [] Last(s) = "1" -> 1 [] Last(s) = "2" -> 2)

\* DEFAULT_GUESS_CONVERTER on the characters of this model: the numeric
\* converter first (blanks removed, then int()), then the bool converter
\* ("y"/"n"), and the value itself when no conversion succeeds.  A value
\* that is not a str (None) is returned as it is.
Convert(raw) ==
    IF raw = None THEN [t |-> "none", v |-> None]
    ELSE LET d == RemoveChar(raw, " ")
         IN  IF d # <<>> /\ \A i \in 1..Len(d) : d[i] \in Digits
             THEN [t |-> "int", v |-> DigitsValue(d)]
             ELSE IF raw = <<"y">> THEN [t |-> "bool", v |-> TRUE]
             ELSE IF raw = <<"n">> THEN [t |-> "bool", v |-> FALSE]
             ELSE [t |-> "str", v |-> raw]


\* ------------------------------------------------------------- extractors

Failed == [ok |-> FALSE]

\* SectionName(name_with_brackets=line): the stripped line must match
\* (?<=^\[).*(?=\]$); the remaining leading "[" and trailing "]" and the
\* surrounding blanks are removed from the interior.
SectionName(line) ==
    LET t == Strip(line)
    IN  IF Len(t) >= 2 /\ Head(t) = "[" /\ Last(t) = "]"
        THEN [ok |-> TRUE,
              name |-> Strip(RStripChar(
                           LStripChar(SubSeq(t, 2, Len(t) - 1), "["), "]"))]
        ELSE Failed

\* _extract_section_name as its caller uses it: the result is tested for
\* truth, and a SectionName is a str, so an empty name counts as no section.
ExtractSectionName(line) ==
    LET r == SectionName(line)
    IN  IF r.ok /\ r.name # <<>> THEN r ELSE Failed

ExtractCommentWithoutDelimiter(line, prefixes) ==
    IF Len(line) >= 2 /\ line[1] \in prefixes
       /\ \A i \in 1..Len(line) : line[i] \notin {"="}
    THEN [ok |-> TRUE, content |-> Strip(Tail(line))]
    ELSE [ok |-> FALSE]

\* Comment(prefix=..., content_with_prefix=line): the line (not stripped) is
\* split once after a leading prefix character that another character
\* follows; the rest, stripped, is the content.
ExtractComment(line, prefixes) ==
    IF Len(line) >= 2 /\ line[1] \in prefixes
    THEN [ok |-> TRUE, content |-> Strip(Tail(line))]
    ELSE Failed

\* The place of the first delimiter of the line, 0 when there is none.
FirstDelimiter(line, delimiters) ==
    IF \E i \in 1..Len(line) : line[i] \in delimiters
    THEN CHOOSE i \in 1..Len(line) :
            /\ line[i] \in delimiters
            /\ \A j \in 1..(i - 1) : line[j] \notin delimiters
    ELSE 0

\* The leftmost place from which only key characters follow up to the end,
\* with no word boundary asked for; 0 when the text does not end in a key
\* character.
KeyStartOfRun(left) ==
    LET ok(s) == \A j \in s..Len(left) : IsKeyChar(left[j])
    IN  IF left # <<>> /\ IsKeyChar(Last(left))
        THEN CHOOSE s \in 1..Len(left) :
                ok(s) /\ \A r \in 1..(s - 1) : ~ok(r)
        ELSE 0

\* \b before place s of text.
IsBoundary(text, s) ==
    IsWord(text[s]) # (s > 1 /\ IsWord(text[s - 1]))

\* re.search(r"\b([\w\.\-\_]+)\b$", left): the leftmost place from which
\* only key characters follow up to the end, which starts at a word
\* boundary and ends in a word character; 0 when there is none.
KeyStart(left) ==
    LET ok(s) == /\ \A j \in s..Len(left) : IsKeyChar(left[j])
                 /\ IsBoundary(left, s)
    IN  IF left # <<>> /\ IsWord(Last(left)) /\ \E s \in 1..Len(left) : ok(s)
        THEN CHOOSE s \in 1..Len(left) :
                ok(s) /\ \A r \in 1..(s - 1) : ~ok(r)
        ELSE 0

\* Option.from_string: split at the first delimiter; the key is the last
\* word of the stripped left side, the value the stripped right side, and
\* an empty right side is None.
ExtractOption(line, delimiters) ==
    LET i == FirstDelimiter(line, delimiters)
        left == Strip(SubSeq(line, 1, i - 1))
        right == Strip(SubSeq(line, i + 1, Len(line)))
        s == KeyStart(left)
    IN  IF i > 0 /\ s > 0
        THEN [ok |-> TRUE,
              key |-> SubSeq(left, s, Len(left)),
              value |-> IF right = <<>> THEN None ELSE right]
        ELSE Failed

\* _extract_continuation: re.search(rf"(?<=^{multiline_prefix}).*", line),
\* the text after the prefix, or nothing when the line lacks the prefix.
ExtractContinuation(line, p) ==
    IF StartsWith(line, p.multiline_prefix)
    THEN [ok |-> TRUE,
          text |-> SubSeq(line, Len(p.multiline_prefix) + 1, Len(line))]
    ELSE Failed

IsBlankEntity(entity, p) ==
    \A i \in 1..Len(entity) : entity[i] \in Whitespace

\* _is_empty_entity: [\s\t]* with ignore_whitespace_lines, else the empty
\* text only.
IsEmptyEntity(entity, p) ==
    IF p.ignore_whitespace_lines
    THEN \A i \in 1..Len(entity) : entity[i] \in Whitespace
    ELSE entity = <<>>

\* ----------------------------------------------------------------- lines

\* The entities a document is made of.  Section "a" and its option "x" are
\* declared by the schema; section "u" and the key "n" are not.  The comment
\* line holds what an option assignment holds after its prefix.
Lines ==
    { <<"[", "a", "]">>,
      <<"[", "u", "]">>,
      <<"x", "=", "1">>,
      <<"x", "=">>,
      <<"n", "=", "2">>,
      <<";", "x", "=", "1">>,
      <<>>,
      <<" ">>,
      <<"t">>,
      <<">">>,
      <<">", "t">> }

\* ----------------------------------------------------------------- state

VARIABLES
    default_parameters,         \* Schema._default_parameters
    schema_slots,               \* Schema._slots: slot key -> Structure of section names
    sections,                   \* the Section attributes of the Schema, by attribute name
    pc,                         \* "idle", or "reading" inside _ReadIni.__new__'s loop
    slots,                      \* _ReadIni.__new__: the slot key of the read
    current_section,            \* attribute name of the current section, or None
    current_option,             \* the open option, or NoOption
    current_section_structure,  \* entities accepted since the last section header
    entity_index,               \* entities consumed so far, over all reads and calls
    reads,                      \* read_ini calls so far
    last,                       \* the last step, as Step records it
    before,                     \* the document model when the current read began, or as the last call left it
    assigned,                   \* the open option's assignment and continuations, in order
    slot_store,                 \* a Slots container of its own: Slots(value_type=None)
    call,                       \* the last call on a slot store: arguments, store before, outcome
    markers,                    \* a Parameters object of its own, and the last call on it
    exported,                   \* the exports of the schema: arguments, texts, the read between
    returned,                   \* the last call that only returns: its arguments and its value
    threads                     \* two reads of the schema at once: each read's document and loop variables

vars ==
    << default_parameters, schema_slots, sections, pc, slots, current_section,
       current_option, current_section_structure, entity_index, reads, last,
       before, assigned, slot_store, call, markers, exported, returned, threads >>

NoOption == [sec |-> None, key |-> None]

\* No Parameters object yet: the fields as the first lines of __init__ set
\* them, multiline_prefix not being an attribute.
NoParameters ==
    [ op |-> "none",
      given |-> [comment_prefix |-> "", option_delimiter |-> "",
                 multiline_prefix |-> ""],
      object |-> [ comment_prefixes |-> {}, option_delimiters |-> {},
                   multiline_prefix |-> <<>>, has_multiline_prefix |-> FALSE,
                   ok |-> TRUE ] ]

\* Nothing exported yet.
NoExport ==
    [ round |-> 0,
      arguments |-> [structure |-> "None", export_comments |-> FALSE],
      first |-> [ok |-> FALSE, error |-> "none"],
      read |-> "none",
      text |-> [ok |-> FALSE, error |-> "none"] ]

\* No call that only returns yet.
NoReturn == [op |-> "none", arguments |-> <<>>, value |-> <<>>]

\* No reads at once.
NoThreads == [serialized |-> TRUE, read |-> <<>>]

\* No call on a slot store yet.
NoCall ==
    [ op |-> "none", store |-> <<>>, keys |-> <<>>, flag |-> FALSE,
      values |-> [kind |-> "none", items |-> <<>>], outcome |-> "none" ]

\* The record of one step.
Step(line, text, option, kind, outcome) ==
    [ line |-> line,        \* the entity as the document has it
      text |-> text,        \* the entity without a removed multiline prefix
      option |-> option,    \* current_option before the step
      kind |-> kind,
      outcome |-> outcome ]

OptionEntity(key) == [kind |-> "option", ref |-> key]

CommentEntity(n) == [kind |-> "comment", ref |-> n]

\* Option(key=...) as Section.__init__ creates it: no slot yet.
NewOption(key) == [key |-> key, slots |-> <<>>]

\* A schema-declared section with one option per declared key.
DefinedSection(name, keys) ==
    [ name |-> name,
      undefined |-> FALSE,
      slots |-> <<>>,
      options |-> [v \in {StrToVar(k) : k \in keys} |->
                      NewOption(CHOOSE k \in keys : StrToVar(k) = v)],
      comments |-> <<>> ]

\* UndefinedSection(section_name, parameters): no option, no slot.
UndefinedSection(name) ==
    [ name |-> name,
      undefined |-> TRUE,
      slots |-> <<>>,
      options |-> <<>>,
      comments |-> <<>> ]

\* Schema._get_section: the attribute name of the section called name, or
\* None for EntityNotFound.
GetSection(secs, name) ==
    IF \E v \in DOMAIN secs : secs[v].name = name
    THEN CHOOSE v \in DOMAIN secs : secs[v].name = name
    ELSE None

\* Section._get_option(key=key): the attribute name of the option with that
\* key, or None for EntityNotFound.
GetOption(sec, key) ==
    IF \E v \in DOMAIN sec.options : sec.options[v].key = key
    THEN CHOOSE v \in DOMAIN sec.options : sec.options[v].key = key
    ELSE None

\* entity in vars(section).values()
Owns(sec, entity) ==
    IF entity.kind = "option"
    THEN GetOption(sec, entity.ref) # None
    ELSE entity.ref < Len(sec.comments)

Contains(structure, item) == \E i \in 1..Len(structure) : structure[i] = item

\* Slots.slot_access(slots, verify=True) for one key: SlotNotFound when the
\* store lacks it.
SlotFound(od, S) == HasKey(od, S)

\* The number of slots taken as the new key.
NewSlotKeyLen(od) == Len(od)

\* _ReadIni.__new__ with slots=False: the first integer of
\* range(len, 2 * len + 1) that is no key yet.
NewSlotKey(od) ==
    CHOOSE k \in Len(od)..(2 * Len(od)) :
        /\ ~HasKey(od, k)
        /\ \A j \in Len(od)..(k - 1) : HasKey(od, j)

Init ==
    /\ default_parameters \in ParameterChoices
    /\ schema_slots = <<>>
    /\ sections = (<<"a">> :> DefinedSection(<<"a">>, {<<"x">>}))
    /\ pc = "idle"
    /\ slots = 0
    /\ current_section = None
    /\ current_option = NoOption
    /\ current_section_structure = <<>>
    /\ entity_index = 0
    /\ reads = 0
    /\ last = Step(None, None, NoOption, "none", "none")
    /\ before = [sections |-> sections, schema_slots |-> schema_slots]
    /\ assigned = <<>>
    /\ slot_store = <<>>
    /\ call = NoCall
    /\ markers = NoParameters
    /\ exported = NoExport
    /\ returned = NoReturn
    /\ threads = NoThreads

\* ------------------------------------------------------------ the reader

\* The reader's view of the model and its loop variables.
Env ==
    [ sections |-> sections,
      schema_slots |-> schema_slots,
      current_section |-> current_section,
      current_option |-> current_option,
      structure |-> current_section_structure ]

\* What became of one entity: the view after it, what the entity was taken
\* for (kind) and how the branch ended (outcome).
Outcome(e, kind, outcome) ==
    [ sections |-> e.sections,
      schema_slots |-> e.schema_slots,
      current_section |-> e.current_section,
      current_option |-> e.current_option,
      structure |-> e.structure,
      kind |-> kind,
      outcome |-> outcome ]

\* The exceptions that end a read.
Faults ==
    {"IniStructureError", "MultilineNotAllowed", "MultilineRules",
     "SlotNotFound", "TypeError"}

SetAllSlots(od, S, value) ==
    [i \in 1..Len(Put(od, S, value)) |-> [k |-> Put(od, S, value)[i].k, v |-> value]]

KeepSlots(od, S, value) == IF HasKey(od, S) THEN od ELSE Put(od, S, value)

\* Slots.set_slots(values, create_missing_slots=True, slots=S)
SetSlots(od, S, value) == Put(od, S, value)

\* Option._set_slots' slot_value(): the input and the option's type
\* converter applied to it (None is not converted).
SlotValue(value) ==
    [ input |-> [t |-> "scalar", v |-> value],
      converted |-> [t |-> "scalar", v |-> Convert(value)] ]

AddContinuationFirst(value, continuation) ==
    LET items == IF value.input.t = "multiline"
                 THEN <<continuation>> \o value.input.v
                 ELSE <<continuation, value.input.v>>
    IN  [ input |-> [t |-> "multiline", v |-> items],
          converted |-> [t |-> "multiline",
                         v |-> [i \in 1..Len(items) |-> Convert(items[i])]] ]

\* Option.add_continuation on one slot value: a scalar input becomes a
\* one-element list, the continuation is appended, and every element is
\* converted anew.
AddContinuation(value, continuation) ==
    LET items == IF value.input.t = "multiline"
                 THEN Append(value.input.v, continuation)
                 ELSE <<value.input.v, continuation>>
    IN  [ input |-> [t |-> "multiline", v |-> items],
          converted |-> [t |-> "multiline",
                         v |-> [i \in 1..Len(items) |-> Convert(items[i])]] ]

\* _set_structure_items(items=item, positions=None, exist_action="ignore")
\* on one slot's Structure: appended unless already there.
SetStructureItems(structure, item) ==
    IF Contains(structure, item) THEN structure ELSE Append(structure, item)

\* _ReadIni._get_unnamed_section: the section with no name, created as an
\* UndefinedSection (without any slot) when read_undefined allows sections.
GetUnnamedSection(secs, p) ==
    IF GetSection(secs, None) # None
    THEN [sections |-> secs, section |-> GetSection(secs, None)]
    ELSE IF p.read_undefined \in {"True", "section"}
    THEN [sections |-> (UNNAMED_SECTION_NAME :> UndefinedSection(None)) @@ secs,
          section |-> UNNAMED_SECTION_NAME]
    ELSE [sections |-> secs, section |-> None]

\* _check_for_possible_continuation: with multiline allowed and an option
\* open, the line without its multiline prefix; otherwise the line itself.
CheckForPossibleContinuation(line, option, p) ==
    LET c == IF p.multiline_allowed /\ option # NoOption
             THEN ExtractContinuation(line, p)
             ELSE Failed
    IN  IF c.ok
        THEN [text |-> c.text, possible |-> TRUE]
        ELSE [text |-> line, possible |-> FALSE]

\* The guard in front of each extractor.
Tries(possible, marker, p) ==
    ~possible \/ marker \notin p.multiline_ignore

\* The flush at a section header: current_section._set_structure(
\* current_section_structure, slots, create_missing_slots=True).
SetStructure(e, S) ==
    IF e.current_section # None /\ e.structure # <<>>
    THEN IF \E i \in 1..Len(e.structure) :
                ~Owns(e.sections[e.current_section], e.structure[i])
         THEN Outcome(e, "section_name", "IniStructureError")
         ELSE Outcome([e EXCEPT
                  !.sections[e.current_section].slots = SetSlots(@, S, e.structure),
                  !.structure = <<>>], "section_name", "flushed")
    ELSE Outcome(e, "section_name", "flushed")

\* _handle_section_name after the flush: an unknown name yields no section
\* unless read_undefined allows sections, in which case an UndefinedSection
\* becomes an attribute of the schema; the section is appended to the
\* schema's Structure of the slot unless listed there, and gets the slot.
\* current_option is not assigned.
HandleSectionName(e, name, p, S) ==
    LET found == GetSection(e.sections, name)
        var == IF found = None THEN StrToVar(name) ELSE found
        secs == IF found = None
                THEN (var :> UndefinedSection(name)) @@ e.sections
                ELSE e.sections
    IN  IF found = None /\ p.read_undefined \notin {"True", "section"}
        THEN Outcome([e EXCEPT !.current_section = None],
                     "section_name", "no_section")
        ELSE IF ~SlotFound(e.schema_slots, S)
        THEN Outcome([e EXCEPT !.sections = secs], "section_name", "SlotNotFound")
        ELSE Outcome([e EXCEPT
                 !.sections = [secs EXCEPT ![var].slots = AddSlot(@, S, <<>>)],
                 !.schema_slots =
                     Put(@, S, SetStructureItems(Get(@, S), name)),
                 !.current_section = var], "section_name", "section")

\* The section branch of the loop: flush, then _handle_section_name.
SectionHeader(e, name, p, S) ==
    LET f == SetStructure(e, S)
    IN  IF f.outcome \in Faults THEN f ELSE HandleSectionName(f, name, p, S)

AfterCommentClosed(option) == NoOption

\* The comment branch ends in "continue" without assigning current_option.
AfterComment(option) == option

\* _handle_comment: Section._add_entity sets the attribute _COMMENT_<n>
\* first and then inserts the comment into the slot's Structure, which
\* raises SlotNotFound when the section lacks the slot.
HandleComment(e, content, S) ==
    LET sec == e.sections[e.current_section]
        n == Len(sec.comments)
        added == [e EXCEPT !.sections[e.current_section].comments =
                               Append(@, content)]
    IN  IF ~SlotFound(sec.slots, S)
        THEN Outcome(added, "comment", "SlotNotFound")
        ELSE Outcome([added EXCEPT
                 !.sections[e.current_section].slots =
                     Put(@, S, Append(Get(@, S), CommentEntity(n))),
                 !.structure = Append(@, CommentEntity(n)),
                 !.current_option = AfterComment(@)], "comment", "comment")

\* _handle_option: a defined option gets the value in the slot (created when
\* missing) and a place in the section's Structure of the slot, and becomes
\* the open option.  An undefined key yields nothing to handle unless
\* read_undefined allows options; then Section._add_entity constructs
\* UndefinedOption(extracted_option), whose __new__ passes the option where
\* the class is expected, which raises TypeError.
HandleOption(e, option, p, S) ==
    LET sec == e.sections[e.current_section]
        var == GetOption(sec, option.key)
        set == [e EXCEPT !.sections[e.current_section].options[var].slots =
                             SetSlots(@, S, SlotValue(option.value))]
    IN  IF var # None
        THEN IF ~SlotFound(sec.slots, S)
             THEN Outcome(set, "option", "SlotNotFound")
             ELSE Outcome([set EXCEPT
                      !.sections[e.current_section].slots =
                          Put(@, S, SetStructureItems(Get(@, S),
                                                      OptionEntity(option.key))),
                      !.structure = Append(@, OptionEntity(option.key)),
                      !.current_option =
                          [sec |-> e.current_section, key |-> option.key]],
                      "option", "option")
        ELSE IF p.read_undefined \in {"True", "option"}
        THEN Outcome(e, "option", "TypeError")
        ELSE Outcome(e, "option", "unhandled")

HandleContinuationRulesFirst(e, continuation, possible, p, S) ==
    IF ~possible THEN Outcome(e, "text", "MultilineRules")
    ELSE IF ~p.multiline_allowed THEN Outcome(e, "text", "MultilineNotAllowed")
    ELSE IF e.current_option = NoOption
    THEN Outcome(e, "text", "IniStructureError")
    ELSE Outcome([e EXCEPT
             !.sections[e.current_option.sec]
                 .options[GetOption(e.sections[e.current_option.sec],
                                    e.current_option.key)].slots =
                 Put(@, S, AddContinuation(Get(@, S), continuation))],
             "text", "continuation")

\* The end of the loop body with a read that is undone when it fails.
HandleContinuationRollback(e, continuation, possible, p, S) ==
    IF e.current_option = NoOption \/ ~p.multiline_allowed \/ ~possible
    THEN Outcome([e EXCEPT !.sections = before.sections,
                           !.schema_slots = before.schema_slots], "text",
                 IF e.current_option = NoOption THEN "IniStructureError"
                 ELSE IF ~p.multiline_allowed THEN "MultilineNotAllowed"
                 ELSE "MultilineRules")
    ELSE LET s == e.current_option.sec
             var == GetOption(e.sections[s], e.current_option.key)
         IN  IF ~SlotFound(e.sections[s].options[var].slots, S)
             THEN Outcome(e, "text", "SlotNotFound")
             ELSE Outcome([e EXCEPT !.sections[s].options[var].slots =
                              Put(@, S, AddContinuation(Get(@, S), continuation))],
                          "text", "continuation")

\* The end of the loop body: the faults, or _handle_continuation on the
\* open option's value in the slot.
HandleContinuation(e, continuation, possible, p, S) ==
    IF e.current_option = NoOption
    THEN Outcome(e, "text", "IniStructureError")
    ELSE IF ~p.multiline_allowed THEN Outcome(e, "text", "MultilineNotAllowed")
    ELSE IF ~possible THEN Outcome(e, "text", "MultilineRules")
    ELSE LET s == e.current_option.sec
             var == GetOption(e.sections[s], e.current_option.key)
         IN  IF ~SlotFound(e.sections[s].options[var].slots, S)
             THEN Outcome(e, "text", "SlotNotFound")
             ELSE Outcome([e EXCEPT !.sections[s].options[var].slots =
                              Put(@, S, AddContinuation(Get(@, S), continuation))],
                          "text", "continuation")

\* One pass of the loop of _ReadIni.__new__ over the entity line.  An
\* option line that is not handled goes on to the end of the loop body as
\* any other text does.
ReadLine(e, line, p, S) ==
    LET c == CheckForPossibleContinuation(line, e.current_option, p)
        name == IF Tries(c.possible, "section_name", p)
                THEN ExtractSectionName(c.text) ELSE Failed
        comment == IF Tries(c.possible, "comment_prefix", p)
                   THEN ExtractComment(c.text, CommentPrefixes) ELSE Failed
        option == IF Tries(c.possible, "option_delimiter", p)
                  THEN ExtractOption(c.text, OptionDelimiters) ELSE Failed
        handled == IF option.ok THEN HandleOption(e, option, p, S)
                   ELSE Outcome(e, "text", "unhandled")
    IN  IF IsEmptyEntity(c.text, p)
        THEN Outcome([e EXCEPT !.current_option = NoOption], "blank", "blank")
        ELSE IF name.ok THEN SectionHeader(e, name.name, p, S)
        ELSE IF e.current_section = None
        THEN Outcome(e, "unaddressed", "dropped")
        ELSE IF comment.ok THEN HandleComment(e, comment.content, S)
        ELSE IF handled.outcome # "unhandled" THEN handled
        ELSE [HandleContinuation(e, c.text, c.possible, p, S)
                  EXCEPT !.kind = handled.kind]

\* ---------------------------------------------------------------- actions

\* The slot keys a caller passes to read_ini(slots=...).
SlotKeyChoices == 0..(MaxReads - 1)

\* _ReadIni.__new__ from the slot handling to the start of the loop, for
\* the slot key S and the schema's slot store as the slot handling left it.
Begin(S, store) ==
    LET unnamed == GetUnnamedSection(sections, default_parameters)
    IN  /\ pc = "idle"
        /\ reads < MaxReads
        /\ entity_index < MaxEntities
        /\ schema_slots' = store
        /\ sections' = unnamed.sections
        /\ current_section' = unnamed.section
        /\ current_option' = NoOption
        /\ current_section_structure' = <<>>
        /\ slots' = S
        /\ pc' = "reading"
        /\ reads' = reads + 1
        /\ last' = Step(None, None, NoOption, "none", "start")
        /\ before' = [sections |-> sections, schema_slots |-> schema_slots]
        /\ assigned' = <<>>
        /\ UNCHANGED << default_parameters, entity_index, slot_store, call, markers,
                    exported, returned, threads >>

\* read_ini(path) with slots=False: a new slot key is generated and added
\* to the schema's slot store with an empty Structure.
ReadIniNewSlot ==
    Begin(NewSlotKey(schema_slots),
          AddSlot(schema_slots, NewSlotKey(schema_slots), <<>>))

\* read_ini(path, slots=key): slot_access(slots, verify=True) raises
\* SlotNotFound for a key the schema lacks, before anything is read.
ReadIniInto(key) ==
    IF SlotFound(schema_slots, key)
    THEN Begin(key, schema_slots)
    ELSE /\ pc = "idle"
         /\ reads < MaxReads
         /\ reads' = reads + 1
         /\ last' = Step(None, None, NoOption, "none", "SlotNotFound")
         /\ before' = [sections |-> sections, schema_slots |-> schema_slots]
         /\ UNCHANGED << default_parameters, schema_slots, sections, pc,
                         slots, current_section, current_option,
                         current_section_structure, entity_index, assigned,
                         slot_store, call, markers,
                    exported, returned, threads >>

ReadIniIntoSlot == \E key \in SlotKeyChoices : ReadIniInto(key)

\* The lines the open option has received: the line of its assignment and
\* the lines accepted as its continuations since, as the document has them.
Assigned(r, line) ==
    IF r.outcome \in Faults \/ r.current_option = NoOption THEN <<>>
    ELSE IF r.outcome = "option" THEN <<line>>
    ELSE IF r.outcome = "continuation" THEN Append(assigned, line)
    ELSE assigned

\* One iteration of the loop: the next entity of the document is any of
\* lines.  A fault leaves the loop and the read; what was written stays
\* written.
ReadEntityOf(lines) ==
    /\ pc = "reading"
    /\ entity_index < MaxEntities
    /\ \E line \in lines :
        LET r == ReadLine(Env, line, default_parameters, slots)
            fault == r.outcome \in Faults
        IN  /\ sections' = r.sections
            /\ schema_slots' = r.schema_slots
            /\ current_section' = IF fault THEN None ELSE r.current_section
            /\ current_option' = IF fault THEN NoOption ELSE r.current_option
            /\ current_section_structure' = IF fault THEN <<>> ELSE r.structure
            /\ entity_index' = entity_index + 1
            /\ pc' = IF fault THEN "idle" ELSE "reading"
            /\ last' = Step(line,
                             CheckForPossibleContinuation(
                                 line, current_option, default_parameters).text,
                             current_option, r.kind, r.outcome)
            /\ assigned' = Assigned(r, line)
    /\ UNCHANGED << default_parameters, slots, reads, before, slot_store, call, markers,
                    exported, returned, threads >>

ReadEntity == ReadEntityOf(Lines)

\* The end of the document, which has at least one entity (re.split never
\* returns an empty list): the loop ends, the unnamed section is looked up
\* once more ("del unnamed" unbinds a local name only), and nothing is
\* flushed.
EndRead ==
    /\ pc = "reading"
    /\ last.outcome # "start"
    /\ sections' = GetUnnamedSection(sections, default_parameters).sections
    /\ pc' = "idle"
    /\ current_section' = None
    /\ current_option' = NoOption
    /\ current_section_structure' = <<>>
    /\ assigned' = <<>>
    /\ last' = Step(None, None, NoOption, "none", "end")
    /\ UNCHANGED << default_parameters, schema_slots, slots, reads, before,
                    entity_index, slot_store, call, markers,
                    exported, returned, threads >>

\* ---------------------------------------------------- calls on a section

\* The option keys and the value that callers pass: the declared key and
\* two undeclared keys with one attribute name.
CallKeys == { <<"x">>, <<"n", "-", "n">>, <<"n", "_", "n">> }

CallValue == <<"1">>

UndefinedOptionConstructed(option) == [ok |-> TRUE, option |-> option]

\* UndefinedOption(option) and UndefinedOption(values=..., slots=...):
\* __new__ calls super().__new__(*args, **kwargs) without the class, which
\* raises TypeError for every argument list.
UndefinedOption(option) == [ok |-> FALSE, error |-> "TypeError"]

\* Section._add_entity(entity, positions=None, slots=S) on the section s.
\* An option whose key the section has is a duplicate; any other option is
\* turned into an UndefinedOption and set as the attribute _str_to_var(key);
\* a comment is set as the next comment attribute.  The entity is then
\* inserted into the Structure of the slot, which raises SlotNotFound or,
\* for an item already there, DuplicateEntityError.
AddEntity(secs, s, entity, S) ==
    LET sec == secs[s]
        undefined == UndefinedOption(NewOption(entity.ref))
        item == IF entity.kind = "option" THEN OptionEntity(entity.ref)
                ELSE CommentEntity(Len(sec.comments))
        set == IF entity.kind = "option"
               THEN [secs EXCEPT ![s].options =
                        (StrToVar(entity.ref) :> undefined.option) @@ @]
               ELSE [secs EXCEPT ![s].comments = Append(@, entity.ref)]
    IN  IF entity.kind = "option" /\ GetOption(sec, entity.ref) # None
        THEN [sections |-> secs, outcome |-> "DuplicateEntityError"]
        ELSE IF entity.kind = "option" /\ ~undefined.ok
        THEN [sections |-> secs, outcome |-> undefined.error]
        ELSE IF ~SlotFound(sec.slots, S)
        THEN [sections |-> set, outcome |-> "SlotNotFound"]
        ELSE IF Contains(Get(sec.slots, S), item)
        THEN [sections |-> set, outcome |-> "DuplicateEntityError"]
        ELSE [sections |-> [set EXCEPT ![s].slots =
                               Put(@, S, Append(Get(@, S), item))],
              outcome |-> "added"]

\* Section._set_option(name=None, value=value, positions=None, key=key,
\* slots=S) on the section s.  An unknown key goes to UndefinedOption(
\* values=value, slots=S) and _add_entity; a known option gets the value in
\* the slot (created when missing) and then its place in the Structure of
\* the slot: SlotNotFound when the section lacks the slot, appended unless
\* already there.
SetOption(secs, s, key, value, S) ==
    LET sec == secs[s]
        var == GetOption(sec, key)
        undefined == UndefinedOption([key |-> key, slots |-> <<>>])
        set == [secs EXCEPT ![s].options[var].slots =
                   SetSlots(@, S, SlotValue(value))]
    IN  IF var = None
        THEN IF undefined.ok
             THEN AddEntity(secs, s, OptionEntity(undefined.option.key), S)
             ELSE [sections |-> secs, outcome |-> undefined.error]
        ELSE IF ~SlotFound(sec.slots, S)
        THEN [sections |-> set, outcome |-> "SlotNotFound"]
        ELSE [sections |-> [set EXCEPT ![s].slots =
                               Put(@, S, SetStructureItems(Get(@, S),
                                                           OptionEntity(key)))],
              outcome |-> "set"]

\* What a call outside a read leaves behind.
Called(r, kind) ==
    /\ pc = "idle"
    /\ entity_index < MaxEntities
    /\ sections' = r.sections
    /\ entity_index' = entity_index + 1
    /\ last' = Step(None, None, NoOption, kind, r.outcome)
    /\ before' = [sections |-> r.sections, schema_slots |-> schema_slots]
    /\ UNCHANGED << default_parameters, schema_slots, pc, slots,
                    current_section, current_option,
                    current_section_structure, reads, assigned, slot_store, call, markers,
                    exported, returned, threads >>

\* section.add_entity(Option(key=...) or Comment(...), slots=S)
AddEntityCall ==
    \E s \in DOMAIN sections : \E S \in SlotKeyChoices :
        \E entity \in {OptionEntity(k) : k \in CallKeys}
                          \cup {[kind |-> "comment", ref |-> CallValue]} :
            Called(AddEntity(sections, s, entity, S), "add_entity")

\* section.set_option(None, value, key=..., slots=S)
SetOptionCall ==
    \E s \in DOMAIN sections : \E S \in SlotKeyChoices :
        \E key \in CallKeys :
            Called(SetOption(sections, s, key, CallValue, S), "set_option")

Next ==
    \/ ReadIniNewSlot
    \/ ReadIniIntoSlot
    \/ ReadEntity
    \/ EndRead

Spec == Init /\ [][Next]_vars

\* Reads and calls on the sections, in any order, for a Schema constructed
\* with the default parameters.
InitCalls ==
    /\ Init
    /\ default_parameters = Parameters

NextCalls ==
    \/ ReadIniNewSlot
    \/ ReadIniIntoSlot
    \/ ReadEntity
    \/ EndRead
    \/ AddEntityCall
    \/ SetOptionCall

SpecCalls == InitCalls /\ [][NextCalls]_vars

\* Documents of section headers: the declared section "a" plain, padded
\* and in two layers of brackets, two undeclared names that differ in one
\* non-word character, a header with nothing between its brackets, a line
\* with an opening bracket only, and an assignment of the declared key.
HeaderLines ==
    { <<"[", "a", "]">>,
      <<"[", " ", "a", " ", "]">>,
      <<"[", "[", "a", "]", "]">>,
      <<"[", "n", "-", "n", "]">>,
      <<"[", "n", "_", "n", "]">>,
      <<"[", "]">>,
      <<"[", "a">>,
      <<"x", "=", "1">> }

ReadHeader == ReadEntityOf(HeaderLines)

NextHeaders ==
    \/ ReadIniNewSlot
    \/ ReadIniIntoSlot
    \/ ReadHeader
    \/ EndRead

SpecHeaders == Init /\ [][NextHeaders]_vars

\* Documents that end in a fault: headers of the declared and of an
\* undeclared section, assignments of the declared and of an undeclared
\* key, and text with and without the multiline prefix ">".
AbortLines ==
    { <<"[", "a", "]">>,
      <<"[", "u", "]">>,
      <<"x", "=", "1">>,
      <<"n", "=", "2">>,
      <<"t">>,
      <<">", "t">> }

ReadAborting == ReadEntityOf(AbortLines)

NextAborts ==
    \/ ReadIniNewSlot
    \/ ReadIniIntoSlot
    \/ ReadAborting
    \/ EndRead

SpecAborts == Init /\ [][NextAborts]_vars

\* ------------------------------------------------- calls on a slot store

\* The keys of a slot store that callers pass.  A key is an integer or a
\* string; the string key "s" is held here as NamedKey, an integer that no
\* range() of the reader yields, so that any two keys can be compared.
NamedKey == 0 - 1

StoreKeys == {0, NamedKey}

\* The lists of one or two keys.
KeyLists ==
    { <<k>> : k \in StoreKeys } \cup { <<k, l>> : k, l \in StoreKeys }

\* A SlotAccess: None for every slot, or the keys.
Accesses ==
    { [all |-> TRUE, keys |-> <<>>] } \cup
    { [all |-> FALSE, keys |-> keys] : keys \in KeyLists }

\* The default value of Slots(value_type=None).
DefaultValue == None

\* The values argument of set_slots: a callable that returns the value "v",
\* the value "w", which is no list, or a list of values.
ValueArguments ==
    { [kind |-> "callable", items |-> << <<"v">> >>],
      [kind |-> "value", items |-> << <<"w">> >>],
      [kind |-> "list", items |-> << <<"v">> >>],
      [kind |-> "list", items |-> << <<"w">>, <<"v">> >>] }

\* Slots.slot_access(slot_access) without verification.
SlotAccess(od, access) == IF access.all THEN Keys(od) ELSE access.keys

\* Slots.add(keys, exist_ok): the keys are taken in order, and the call
\* raises at the first key that exists when exist_ok is false.
RECURSIVE SlotsAdd(_, _, _)
SlotsAdd(od, keys, exist_ok) ==
    IF keys = <<>> THEN [store |-> od, outcome |-> "added"]
    ELSE IF HasKey(od, Head(keys))
    THEN IF ~exist_ok THEN [store |-> od, outcome |-> "IndexError"]
         ELSE SlotsAdd(od, Tail(keys), exist_ok)
    ELSE SlotsAdd(Append(od, [k |-> Head(keys), v |-> DefaultValue]),
                  Tail(keys), exist_ok)

\* The loop at the end of set_slots over zip(slots, values_per_slot).
RECURSIVE SetEach(_, _, _, _)
SetEach(od, keys, values_per_slot, create_missing_slots) ==
    IF keys = <<>> \/ values_per_slot = <<>>
    THEN [store |-> od, outcome |-> "set"]
    ELSE IF ~HasKey(od, Head(keys)) /\ ~create_missing_slots
    THEN [store |-> od, outcome |-> "IndexError"]
    ELSE SetEach(Put(od, Head(keys), Head(values_per_slot)),
                 Tail(keys), Tail(values_per_slot), create_missing_slots)

\* Slots.set_slots(values, create_missing_slots, slots=access).  A callable
\* is called once per slot; a value that is no list is a list of one
\* value; when the numbers of slots and of values differ, the call raises
\* ValueError unless there is one slot, which gets the list as its value.
SlotsSetSlots(od, access, values, create_missing_slots) ==
    LET keys == SlotAccess(od, access)
        given == IF values.kind = "callable"
                 THEN [i \in 1..Len(keys) |-> values.items[1]]
                 ELSE values.items
    IN  IF Len(keys) # Len(given)
        THEN IF Len(keys) # 1
             THEN [store |-> od, outcome |-> "ValueError"]
             ELSE SetEach(od, keys, <<given>>, create_missing_slots)
        ELSE SetEach(od, keys, given, create_missing_slots)

\* _iLocIndexer.__getitem__(key) for an int: a negative key has the length
\* added, and the result indexes the tuple of the items, where a negative
\* index counts from the end once more.
ILoc(od, key) ==
    LET n == Len(od)
        val == IF key < 0 THEN n + key ELSE key
    IN  IF 0 <= val /\ val < n THEN [ok |-> TRUE, item |-> od[val + 1]]
        ELSE IF 0 - n <= val /\ val < 0
        THEN [ok |-> TRUE, item |-> od[n + val + 1]]
        ELSE [ok |-> FALSE, error |-> "IndexError"]

\* slot_store.add(keys, exist_ok)
AddCall ==
    \E keys \in KeyLists, exist_ok \in BOOLEAN :
        LET r == SlotsAdd(slot_store, keys, exist_ok)
        IN  /\ slot_store' = r.store
            /\ call' = [ op |-> "add", store |-> slot_store, keys |-> keys,
                         flag |-> exist_ok,
                         values |-> [kind |-> "none", items |-> <<>>],
                         outcome |-> r.outcome ]
            /\ UNCHANGED << default_parameters, schema_slots, sections, pc,
                            slots, current_section, current_option,
                            current_section_structure, entity_index, reads,
                            last, before, assigned, markers,
                            exported, returned, threads >>

\* slot_store.set_slots(values, create_missing_slots, slots=access)
SetSlotsCall ==
    \E access \in Accesses, values \in ValueArguments,
       create_missing_slots \in BOOLEAN :
        LET r == SlotsSetSlots(slot_store, access, values, create_missing_slots)
        IN  /\ slot_store' = r.store
            /\ call' = [ op |-> "set", store |-> slot_store,
                         keys |-> SlotAccess(slot_store, access),
                         flag |-> create_missing_slots,
                         values |-> values,
                         outcome |-> r.outcome ]
            /\ UNCHANGED << default_parameters, schema_slots, sections, pc,
                            slots, current_section, current_option,
                            current_section_structure, entity_index, reads,
                            last, before, assigned, markers,
                            exported, returned, threads >>

NextStore ==
    \/ AddCall
    \/ SetSlotsCall

SpecStore == InitCalls /\ [][NextStore]_vars

\* The keys that callers add to the schema's slot store: a string key and
\* two integers.
SchemaKeys == {NamedKey, 1, 2}

\* schema._add_slots(key) between reads, for a key the schema lacks: the
\* new slot holds an empty Structure.
AddSlotsCall ==
    /\ pc = "idle"
    /\ \E key \in SchemaKeys :
           /\ ~HasKey(schema_slots, key)
           /\ schema_slots' = AddSlot(schema_slots, key, <<>>)
    /\ UNCHANGED << default_parameters, sections, pc, slots, current_section,
                    current_option, current_section_structure, entity_index,
                    reads, last, before, assigned, slot_store, call, markers,
                    exported, returned, threads >>

\* Documents of the declared section and its option.
KeyLines == { <<"[", "a", "]">>, <<"x", "=", "1">> }

ReadKeyed == ReadEntityOf(KeyLines)

NextSlotKeys ==
    \/ AddSlotsCall
    \/ ReadIniNewSlot
    \/ ReadIniIntoSlot
    \/ ReadKeyed
    \/ EndRead

SpecSlotKeys == InitCalls /\ [][NextSlotKeys]_vars

\* ---------------------------------------------------------- Parameters

\* The characters given as markers: valid markers, two of which re.escape
\* escapes, and the section name identifier.
Markers == {";", "=", ">", "?", "\\", "["}

\* The characters of the markers that re.escape puts a backslash before.
EscapedChars == {"?", "\\", "["}

\* re.escape of one character.
Escape(c) == IF c \in EscapedChars THEN <<"\\", c>> ELSE <<c>>

\* The set of the characters of a string.
CharsOf(string) == { string[i] : i \in 1..Len(string) }

\* verify_marker for one marker: it may not start with re.escape("[") and
\* may not contain a comma.
VerifyMarker(marker) ==
    /\ ~StartsWith(<<marker>>, Escape("["))
    /\ marker # ","

\* verify_between_markers: TRUE unless it raises ValueError.  The
\* multiline prefix is compared by the characters of its escaped form, and
\* only once it is an attribute.
VerifyBetweenMarkers(object) ==
    /\ object.comment_prefixes # {} =>
           /\ object.comment_prefixes \cap object.option_delimiters = {}
           /\ object.has_multiline_prefix =>
                  object.comment_prefixes \cap CharsOf(object.multiline_prefix) = {}
    /\ object.has_multiline_prefix =>
           CharsOf(object.multiline_prefix) \cap object.option_delimiters = {}

\* The setter of comment_prefixes for one marker.
SetCommentPrefixes(object, value) ==
    IF ~object.ok THEN object
    ELSE IF ~VerifyMarker(value) THEN [object EXCEPT !.ok = FALSE]
    ELSE LET set == [object EXCEPT !.comment_prefixes = {value}]
         IN  [set EXCEPT !.ok = VerifyBetweenMarkers(set)]

\* The setter of option_delimiters for one marker.
SetOptionDelimiters(object, value) ==
    IF ~object.ok THEN object
    ELSE IF ~VerifyMarker(value) THEN [object EXCEPT !.ok = FALSE]
    ELSE LET set == [object EXCEPT !.option_delimiters = {value}]
         IN  [set EXCEPT !.ok = VerifyBetweenMarkers(set)]

\* The setter of multiline_prefix; "" stands for None.
SetMultilinePrefix(object, value) ==
    IF ~object.ok THEN object
    ELSE LET set == [object EXCEPT
                        !.multiline_prefix = IF value = "" THEN <<>>
                                             ELSE Escape(value),
                        !.has_multiline_prefix = TRUE]
         IN  [set EXCEPT !.ok = VerifyBetweenMarkers(set)]

\* Parameters.__init__ for the three markers: the setters in the order of
\* the assignments.
NewParameters(comment_prefix, option_delimiter, multiline_prefix) ==
    SetMultilinePrefix(
        SetOptionDelimiters(
            SetCommentPrefixes(NoParameters.object, comment_prefix),
            option_delimiter),
        multiline_prefix)

\* Parameters(comment_prefixes=..., option_delimiters=..., multiline_prefix=...)
ParametersCall ==
    /\ \E cp \in Markers, od \in Markers, mp \in Markers \cup {""} :
           markers' = [ op |-> "construct",
                        given |-> [comment_prefix |-> cp, option_delimiter |-> od,
                                   multiline_prefix |-> mp],
                        object |-> NewParameters(cp, od, mp) ]
    /\ UNCHANGED << default_parameters, schema_slots, sections, pc, slots,
                    current_section, current_option, current_section_structure,
                    entity_index, reads, last, before, assigned, slot_store,
                    call, exported, returned, threads >>

\* parameters.update(<field>=value) on an object that was constructed.
UpdateCall ==
    /\ markers.op # "none"
    /\ markers.object.ok
    /\ \/ \E value \in Markers :
              markers' = [ op |-> "update",
                           given |-> [markers.given EXCEPT !.comment_prefix = value],
                           object |-> SetCommentPrefixes(markers.object, value) ]
       \/ \E value \in Markers :
              markers' = [ op |-> "update",
                           given |-> [markers.given EXCEPT !.option_delimiter = value],
                           object |-> SetOptionDelimiters(markers.object, value) ]
       \/ \E value \in Markers \cup {""} :
              markers' = [ op |-> "update",
                           given |-> [markers.given EXCEPT !.multiline_prefix = value],
                           object |-> SetMultilinePrefix(markers.object, value) ]
    /\ UNCHANGED << default_parameters, schema_slots, sections, pc, slots,
                    current_section, current_option, current_section_structure,
                    entity_index, reads, last, before, assigned, slot_store,
                    call, exported, returned, threads >>

NextParameters ==
    \/ ParametersCall
    \/ UpdateCall

SpecParameters == InitCalls /\ [][NextParameters]_vars

\* -------------------------------------------------------------- export

\* Parameters.entity_delimiter
EntityDelimiter == "\n"

\* separator.join(strings)
RECURSIVE Join(_, _)
Join(strings, separator) ==
    IF strings = <<>> THEN <<>>
    ELSE IF Len(strings) = 1 THEN strings[1]
    ELSE strings[1] \o separator \o Join(Tail(strings), separator)

\* re.split(entity_delimiter, text): the entities of a text, one at least.
RECURSIVE Split(_, _)
Split(text, delimiter) ==
    IF \E i \in 1..Len(text) : text[i] = delimiter
    THEN LET i == CHOOSE i \in 1..Len(text) :
                      /\ text[i] = delimiter
                      /\ \A j \in 1..(i - 1) : text[j] # delimiter
         IN  <<SubSeq(text, 1, i - 1)>> \o
                 Split(SubSeq(text, i + 1, Len(text)), delimiter)
    ELSE <<text>>

\* str() of one item of a multiline value.
Str(item) == IF item = None THEN <<"N", "o", "n", "e">> ELSE item

\* OptionSlotValue.to_string(multiline_prefix), the prefix None being <<>>.
OptionSlotValueToString(value, multiline_prefix) ==
    IF value.input.t = "multiline"
    THEN Join([i \in 1..Len(value.input.v) |-> Str(value.input.v[i])],
              <<"\n">> \o multiline_prefix)
    ELSE IF value.input.v = None THEN <<>>
    ELSE value.input.v

\* Option.to_string(delimiter, slots=access): the value under the first
\* key of access; any slot value differs from "", so no other key is
\* looked at, and a key that the option lacks raises SlotNotFound.
OptionToString(option, delimiter, access) ==
    IF access = <<>>
    THEN [ok |-> TRUE, text |-> option.key \o <<" ", delimiter, " ">>]
    ELSE IF ~HasKey(option.slots, access[1])
    THEN [ok |-> FALSE, error |-> "SlotNotFound"]
    ELSE [ok |-> TRUE,
          text |-> option.key \o <<" ", delimiter, " ">> \o
                       OptionSlotValueToString(Get(option.slots, access[1]), <<>>)]

\* Comment.to_string(prefix)
CommentToString(content, prefix) == <<prefix, " ">> \o content

\* CommentGroup.to_string(prefix, entity_delimiter)
CommentGroupToString(group, prefix, delimiter) ==
    Join([i \in 1..Len(group) |-> CommentToString(group[i], prefix)],
         <<delimiter>>)

\* The place of the last option before place i of a Structure, or 0.
RECURSIVE LastOptionBefore(_, _)
LastOptionBefore(structure, i) ==
    IF i <= 1 THEN 0
    ELSE IF structure[i - 1].kind = "option" THEN i - 1
    ELSE LastOptionBefore(structure, i - 1)

\* The contents of the comments of a Structure from the last option before
\* place i up to place i.
CommentsUpTo(sec, structure, i) ==
    LET from == LastOptionBefore(structure, i)
    IN  [j \in 1..(i - from - 1) |-> sec.comments[structure[from + j].ref + 1]]

\* Section._assign_comments_to_options(slots=S): each option of the
\* Structure with the comments since the option before it, a later place
\* of an option replacing what an earlier place gave it, and the comments
\* after the last option, if any.
AssignCommentsToOptions(sec, S) ==
    IF ~HasKey(sec.slots, S) THEN [ok |-> FALSE, error |-> "SlotNotFound"]
    ELSE LET st == Get(sec.slots, S)
             places(key) == { i \in 1..Len(st) :
                                  st[i].kind = "option" /\ st[i].ref = key }
             latest(key) == CHOOSE i \in places(key) :
                                \A j \in places(key) : j <= i
         IN  [ ok |-> TRUE,
               options |-> [key \in { st[i].ref : i \in { n \in 1..Len(st) :
                                                          st[n].kind = "option" } }
                               |-> CommentsUpTo(sec, st, latest(key))],
               end |-> CommentsUpTo(sec, st, Len(st) + 1) ]

\* The attributes of a schema in the order of vars(): the declared section,
\* the section with no name, which the first read creates before any line
\* is read, and the undeclared section.
AttributeOrder == << <<"a">>, UNNAMED_SECTION_NAME, <<"u">> >>

\* The keys of the declared options in the order of the schema definition.
DeclaredKeys == << <<"x">>, <<"y">> >>

\* section._schema_structure
SchemaStructure(sec) ==
    LET declared(key) == GetOption(sec, key) # None
    IN  [i \in 1..Len(SelectSeq(DeclaredKeys, declared)) |->
            OptionEntity(SelectSeq(DeclaredKeys, declared)[i])]

\* The slot access of _export for content_slots=None: the keys of the
\* schema's store as the decider method orders and selects them.
ExportAccess(store, method) ==
    LET keys == Keys(store)
    IN  IF method \in {"fallback", "first", "latest"} /\ keys = <<>>
        THEN [ok |-> FALSE, error |-> "IndexError"]
        ELSE [ok |-> TRUE,
              access |->
                 IF method = "fallback"
                 THEN <<Last(keys)>> \o (IF Len(keys) > 1 THEN <<keys[1]>> ELSE <<>>)
                 ELSE IF method = "first" THEN <<keys[1]>>
                 ELSE IF method = "latest" THEN <<Last(keys)>>
                 ELSE IF method = "cascade down"
                 THEN [i \in 1..Len(keys) |-> keys[Len(keys) + 1 - i]]
                 ELSE keys]

\* Schema._get_sections(include_undefined, slots): the attribute names of
\* the sections, all of them in the order of vars() for slots=None and for
\* several slots (those listed in a Structure of the slots), and in the
\* order of the Structure for one slot.
GetSections(secs, store, include_undefined, all, access) ==
    LET valid(v) == v \in DOMAIN secs /\ (include_undefined \/ ~secs[v].undefined)
        listed(v) == \E i \in 1..Len(access) :
                         /\ HasKey(store, access[i])
                         /\ Contains(Get(store, access[i]), secs[v].name)
        both(v) == valid(v) /\ listed(v)
    IN  IF all THEN SelectSeq(AttributeOrder, valid)
        ELSE IF Len(access) = 1
        THEN LET st == Get(store, access[1])
                 named(i) == GetSection(secs, st[i])
                 kept == SelectSeq([i \in 1..Len(st) |-> i],
                                   LAMBDA i : named(i) # None /\ valid(named(i)))
             IN  [i \in 1..Len(kept) |-> named(kept[i])]
        ELSE SelectSeq(AttributeOrder, both)

\* The part of the exported text for the entities of one section from
\* place i of the structure on: each option with its comments in front.
RECURSIVE ExportEntities(_, _, _, _, _)
ExportEntities(sec, structure, i, comments, access) ==
    IF i > Len(structure) THEN [ok |-> TRUE, text |-> <<>>]
    ELSE IF structure[i].kind # "option"
    THEN ExportEntities(sec, structure, i + 1, comments, access)
    ELSE LET key == structure[i].ref
             option == OptionToString(sec.options[GetOption(sec, key)], "=", access)
             rest == ExportEntities(sec, structure, i + 1, comments, access)
             group == IF comments.ok /\ key \in DOMAIN comments.options
                      THEN CommentGroupToString(comments.options[key], ";",
                                                EntityDelimiter)
                               \o <<EntityDelimiter>>
                      ELSE <<>>
         IN  IF ~option.ok THEN option
             ELSE IF ~rest.ok THEN rest
             ELSE [ok |-> TRUE,
                   text |-> group \o option.text
                                \o <<EntityDelimiter, EntityDelimiter>>
                                \o rest.text]

\* The part of the exported text for one section.
ExportSection(sec, schema, export_comments, access) ==
    LET comments == IF export_comments
                    THEN AssignCommentsToOptions(sec, access[1])
                    ELSE [ok |-> FALSE, error |-> "none"]
        name == IF sec.name = None THEN <<>>
                ELSE <<"[">> \o sec.name \o <<"]", EntityDelimiter, EntityDelimiter>>
        structure == IF schema THEN [ok |-> TRUE, v |-> SchemaStructure(sec)]
                     ELSE IF HasKey(sec.slots, access[1])
                     THEN [ok |-> TRUE, v |-> Get(sec.slots, access[1])]
                     ELSE [ok |-> FALSE, error |-> "SlotNotFound"]
        entities == ExportEntities(sec, structure.v, 1, comments, access)
    IN  IF export_comments /\ ~comments.ok THEN comments
        ELSE IF ~structure.ok THEN structure
        ELSE IF ~entities.ok THEN entities
        ELSE [ok |-> TRUE,
              text |-> name \o entities.text \o
                  (IF export_comments /\ comments.end # <<>>
                   THEN CommentGroupToString(comments.end, ";", EntityDelimiter)
                            \o <<EntityDelimiter, EntityDelimiter>>
                   ELSE <<>>)]

RECURSIVE ExportSections(_, _, _, _, _)
ExportSections(secs, names, schema, export_comments, access) ==
    IF names = <<>> THEN [ok |-> TRUE, text |-> <<>>]
    ELSE LET first == ExportSection(secs[Head(names)], schema, export_comments,
                                    access)
             rest == ExportSections(secs, Tail(names), schema, export_comments,
                                    access)
         IN  IF ~first.ok THEN first
             ELSE IF ~rest.ok THEN rest
             ELSE [ok |-> TRUE, text |-> first.text \o rest.text]

\* Schema._export(path, structure, decider_method, include_undefined,
\* export_comments) with content_slots=None: the text written, or the
\* exception.  The structure "None" is the schema's, as "schema" is.
Export(secs, store, structure, method, include_undefined, export_comments) ==
    LET a == ExportAccess(store, method)
        schema == structure # "content"
        names == GetSections(secs, store, include_undefined, schema, a.access)
        out == ExportSections(secs, names, schema, export_comments, a.access)
    IN  IF ~a.ok THEN a
        ELSE IF ~out.ok THEN out
        ELSE [ok |-> TRUE,
              text |-> SubSeq(out.text, 1, Len(out.text) - 2)]

\* The loop of _ReadIni.__new__ over the entities of a document: a fault
\* ends it.
RECURSIVE ReadLines(_, _, _, _)
ReadLines(e, lines, p, S) ==
    IF lines = <<>> THEN Outcome(e, "none", "end")
    ELSE LET r == ReadLine(e, Head(lines), p, S)
         IN  IF r.outcome \in Faults THEN r
             ELSE ReadLines(r, Tail(lines), p, S)

\* read_ini(path) with slots=False, from the new slot key to the end of
\* the document of these entities.
ReadIni(secs, store, p, lines) ==
    LET S == NewSlotKey(store)
        unnamed == GetUnnamedSection(secs, p)
        r == ReadLines([ sections |-> unnamed.sections,
                         schema_slots |-> AddSlot(store, S, <<>>),
                         current_section |-> unnamed.section,
                         current_option |-> NoOption,
                         structure |-> <<>> ], lines, p, S)
    IN  [ sections |-> IF r.outcome \in Faults THEN r.sections
                       ELSE GetUnnamedSection(r.sections, p).sections,
          schema_slots |-> r.schema_slots,
          slot |-> S,
          outcome |-> r.outcome ]

\* The number of entities of a document that is read and exported.
MaxLines == 5

\* The entities of such a document after its first, the header of the
\* declared section: the header again, assignments of the declared key
\* with a value and without, a comment, and a text with the marker ">".
DocumentLines ==
    { <<"[", "a", "]">>,
      <<"x", "=", "1">>,
      <<"x", "=">>,
      <<";", "c">>,
      <<">", "t">> }

Documents ==
    { << <<"[", "a", "]">> >> \o body :
          body \in UNION { [1..n -> DocumentLines] : n \in 0..(MaxLines - 1) } }

\* The parameters of a Schema that is exported: the defaults, and the
\* defaults with the multiline prefix ">".
ExportParameters ==
    { Parameters, [Parameters EXCEPT !.multiline_prefix = <<">">>] }

\* What a whole read_ini call leaves.
ReadAll(r) ==
    /\ sections' = r.sections
    /\ schema_slots' = r.schema_slots
    /\ slots' = r.slot
    /\ reads' = reads + 1
    /\ last' = Step(None, None, NoOption, "none", r.outcome)
    /\ before' = [sections |-> sections, schema_slots |-> schema_slots]
    /\ UNCHANGED << default_parameters, pc, current_section, current_option,
                    current_section_structure, entity_index, assigned,
                    slot_store, call, markers, returned, threads >>

\* schema.read_ini(path) of a document, the first read of the schema.
ReadDocumentCall ==
    /\ reads = 0
    /\ \E document \in Documents :
           ReadAll(ReadIni(sections, schema_slots, default_parameters, document))
    /\ UNCHANGED << exported, returned, threads >>

\* schema.export(path, structure=..., include_undefined=False,
\* export_comments=...)
ExportCall ==
    /\ exported.round = 0
    /\ \E structure \in {"None", "content"}, export_comments \in BOOLEAN :
           exported' =
               [ round |-> 1,
                 arguments |-> [structure |-> structure,
                                export_comments |-> export_comments],
                 first |-> NoExport.first,
                 read |-> "none",
                 text |-> Export(sections, schema_slots, structure, "fallback",
                                 FALSE, export_comments) ]
    /\ UNCHANGED << default_parameters, schema_slots, sections, pc, slots,
                    current_section, current_option, current_section_structure,
                    entity_index, reads, last, before, assigned, slot_store,
                    call, markers, returned, threads >>

\* schema.read_ini(path) of the file that was exported.
ReadExportedCall ==
    /\ exported.round = 1
    /\ exported.text.ok
    /\ LET r == ReadIni(sections, schema_slots, default_parameters,
                        Split(exported.text.text, EntityDelimiter))
       IN  /\ ReadAll(r)
           /\ exported' = [exported EXCEPT !.round = 2, !.read = r.outcome]

\* schema.export once more, with the arguments of the first export.
ExportAgainCall ==
    /\ exported.round = 2
    /\ exported' =
           [exported EXCEPT
               !.round = 3,
               !.first = exported.text,
               !.text = Export(sections, schema_slots,
                               exported.arguments.structure, "fallback", FALSE,
                               exported.arguments.export_comments)]
    /\ UNCHANGED << default_parameters, schema_slots, sections, pc, slots,
                    current_section, current_option, current_section_structure,
                    entity_index, reads, last, before, assigned, slot_store,
                    call, markers, returned, threads >>

InitExport ==
    /\ Init
    /\ default_parameters \in ExportParameters

NextExport ==
    \/ ReadDocumentCall
    \/ ExportCall
    \/ ReadExportedCall
    \/ ExportAgainCall

SpecExport == InitExport /\ [][NextExport]_vars

\* -------------------------------------------------- calls on Structures

\* The number of calls on the Structures of a section in one behaviour.
MaxCalls == 2

\* The documents read before the calls: the declared section with an
\* assignment, with a comment and an assignment of the other key in both
\* orders, and with both keys assigned.
StructureDocuments ==
    { << <<"[", "a", "]">>, <<"x", "=", "1">> >>,
      << <<"[", "a", "]">>, <<";", "c">>, <<"y", "=", "1">> >>,
      << <<"[", "a", "]">>, <<"y", "=", "1">>, <<";", "c">> >>,
      << <<"[", "a", "]">>, <<"y", "=", "1">>, <<"x", "=", "1">> >> }

\* The positions argument: None, or one position for every slot.
Positions ==
    { [none |-> TRUE, at |-> 0] } \cup
    { [none |-> FALSE, at |-> i] : i \in {0, 1, 0 - 1, 3} }

\* The slots argument: None for every slot, one key, or a list of two.
StructureAccesses ==
    { [all |-> TRUE, keys |-> <<>>] } \cup
    { [all |-> FALSE, keys |-> <<k>>] : k \in SlotKeyChoices } \cup
    { [all |-> FALSE, keys |-> <<k, l>>] : k, l \in SlotKeyChoices }

\* Structure.validate_position(pos)
ValidatePosition(structure, pos) ==
    (0 - Len(structure)) - 1 <= pos /\ pos <= Len(structure)

\* structure[slice(pos, pos)] = [item], the slice at the end for the
\* position None: a negative position counts from the end, and a slice
\* that starts before the first place starts at it.
InsertAt(structure, position, item) ==
    LET n == Len(structure)
        i == IF position.none \/ position.at > n THEN n
             ELSE IF position.at >= 0 THEN position.at
             ELSE IF n + position.at < 0 THEN 0
             ELSE n + position.at
    IN  SubSeq(structure, 1, i) \o <<item>> \o SubSeq(structure, i + 1, n)

\* The loop of _set_structure_items over the slots, one after the other.
\* An item that is in the Structure is ignored, or "moved" into a list
\* that is built and dropped, or raises DuplicateEntityError; the slots
\* before it keep what the loop gave them.
RECURSIVE SetItemsEach(_, _, _, _, _)
SetItemsEach(od, item, position, exist_action, access) ==
    IF access = <<>> THEN [slots |-> od, outcome |-> "set"]
    ELSE LET S == Head(access)
             structure == Get(od, S)
             handle == IF exist_action = "move_not_None"
                       THEN (IF position.none THEN "ignore" ELSE "move")
                       ELSE exist_action
         IN  IF Contains(structure, item)
             THEN IF handle \in {"ignore", "move"}
                  THEN SetItemsEach(od, item, position, exist_action,
                                    Tail(access))
                  ELSE [slots |-> od, outcome |-> "DuplicateEntityError"]
             ELSE SetItemsEach(Put(od, S, InsertAt(structure, position, item)),
                               item, position, exist_action, Tail(access))

\* _set_structure_items(items=item, positions=position, exist_action,
\* slots=access) on the slots of a section: the access is verified, then
\* the position for every slot, then the slots are taken in order.
SetStructureItemsIn(od, item, position, exist_action, access) ==
    LET keys == SlotAccess(od, access)
    IN  IF \E i \in 1..Len(keys) : ~HasKey(od, keys[i])
        THEN [slots |-> od, outcome |-> "SlotNotFound"]
        ELSE IF ~position.none /\
                \E i \in 1..Len(keys) :
                    ~ValidatePosition(Get(od, keys[i]), position.at)
        THEN [slots |-> od, outcome |-> "IndexError"]
        ELSE SetItemsEach(od, item, position, exist_action, keys)

\* The entities a section owns: its options and its comments.
EntitiesOf(sec) ==
    { OptionEntity(sec.options[v].key) : v \in DOMAIN sec.options } \cup
    { CommentEntity(n) : n \in 0..(Len(sec.comments) - 1) }

\* schema.read_ini(path) of a document into a new slot.
ReadStructureCall ==
    /\ reads < MaxReads
    /\ \E document \in StructureDocuments :
           ReadAll(ReadIni(sections, schema_slots, default_parameters, document))
    /\ UNCHANGED << exported, returned, threads >>

\* section.add_entity(Option(key=...), slots=S)
AddOptionOf(s, key, S) ==
    /\ entity_index < MaxCalls
    /\ Called(AddEntity(sections, s, OptionEntity(key), S), "add_entity")

AddOptionCall ==
    \E s \in DOMAIN sections : \E S \in SlotKeyChoices :
        \E key \in CallKeys : AddOptionOf(s, key, S)

\* section._set_structure_items(items=item, slots=access)
SetStructureItemsOf(s, item, access) ==
    LET r == SetStructureItemsIn(sections[s].slots, item,
                                 [none |-> TRUE, at |-> 0], "exception", access)
    IN  /\ entity_index < MaxCalls
        /\ Called([sections |-> [sections EXCEPT ![s].slots = r.slots],
                   outcome |-> r.outcome], "set_structure_items")

SetStructureItemsCall ==
    \E s \in DOMAIN sections : \E item \in EntitiesOf(sections[s]) :
        \E access \in StructureAccesses : SetStructureItemsOf(s, item, access)

\* Section._set_option(name=None, value=value, positions=position, key=key,
\* slots=access) for the key of an option of the section: the value is set
\* in every slot of the access, slots the option lacks being created, and
\* the option is then placed in the Structures.
RECURSIVE SetSlotsEach(_, _, _)
SetSlotsEach(od, keys, value) ==
    IF keys = <<>> THEN od
    ELSE SetSlotsEach(SetSlots(od, Head(keys), value), Tail(keys), value)

SetOptionAt(secs, s, key, value, position, access) ==
    LET sec == secs[s]
        var == GetOption(sec, key)
        set == [secs EXCEPT ![s].options[var].slots =
                   SetSlotsEach(@, SlotAccess(@, access), SlotValue(value))]
        r == SetStructureItemsIn(sec.slots, OptionEntity(key), position,
                                 "move_not_None", access)
    IN  [sections |-> [set EXCEPT ![s].slots = r.slots], outcome |-> r.outcome]

\* section.set_option(None, value, position, key=..., slots=access)
SetOptionOf(s, key, position, access) ==
    /\ entity_index < MaxCalls
    /\ Called(SetOptionAt(sections, s, key, CallValue, position, access),
              "set_option")

SetOptionAtCall ==
    \E s \in DOMAIN sections : \E key \in { <<"x">>, <<"y">> } :
        \E position \in Positions, access \in StructureAccesses :
            /\ GetOption(sections[s], key) # None
            /\ SetOptionOf(s, key, position, access)

\* A constructed Schema whose section "a" declares the options x and y.
InitStructures ==
    /\ default_parameters = Parameters
    /\ schema_slots = <<>>
    /\ sections = (<<"a">> :> DefinedSection(<<"a">>, {<<"x">>, <<"y">>}))
    /\ pc = "idle"
    /\ slots = 0
    /\ current_section = None
    /\ current_option = NoOption
    /\ current_section_structure = <<>>
    /\ entity_index = 0
    /\ reads = 0
    /\ last = Step(None, None, NoOption, "none", "none")
    /\ before = [sections |-> sections, schema_slots |-> schema_slots]
    /\ assigned = <<>>
    /\ slot_store = <<>>
    /\ call = NoCall
    /\ markers = NoParameters
    /\ exported = NoExport
    /\ returned = NoReturn
    /\ threads = NoThreads

NextStructures ==
    \/ ReadStructureCall
    \/ AddOptionCall
    \/ SetStructureItemsCall
    \/ SetOptionAtCall

SpecStructures == InitStructures /\ [][NextStructures]_vars

\* ------------------------------------------- content of several slots

\* The documents read into the slots: the declared section with x, with y
\* and x without a value, with y alone, and an undeclared section in front
\* of the declared one.
ContentDocuments ==
    { << <<"[", "a", "]">>, <<"x", "=", "1">> >>,
      << <<"[", "a", "]">>, <<"y", "=", "2">>, <<"x", "=">> >>,
      << <<"[", "a", "]">>, <<"y", "=", "2">> >>,
      << <<"[", "u", "]">>, <<"[", "a", "]">>, <<"x", "=", "2">> >> }

\* The content of an export: a decider method with content_slots None, or
\* the content slots.
Contents ==
    { [method |-> m, slots |-> <<>>] : m \in {"fallback", "cascade down"} } \cup
    { [method |-> "None", slots |-> keys] :
          keys \in { <<k>> : k \in SlotKeyChoices } \cup
                   { <<k, l>> : k, l \in SlotKeyChoices } }

ExportArguments ==
    [ structure : {"None", "schema", "content"},
      content : Contents,
      include_undefined : BOOLEAN,
      export_comments : {FALSE} ]

\* Schema._export with content_slots given: the access is verified; the
\* structure None is the content's for the entities of a section and the
\* schema's for the sections.
ExportSlots(secs, store, structure, content_slots, include_undefined, comments) ==
    LET schema == structure = "schema"
        names == GetSections(secs, store, include_undefined,
                             structure # "content", content_slots)
        out == ExportSections(secs, names, schema, comments, content_slots)
    IN  IF \E i \in 1..Len(content_slots) : ~HasKey(store, content_slots[i])
        THEN [ok |-> FALSE, error |-> "SlotNotFound"]
        ELSE IF ~out.ok THEN out
        ELSE [ok |-> TRUE, text |-> SubSeq(out.text, 1, Len(out.text) - 2)]

\* Schema._export(path, structure, decider_method, include_undefined,
\* export_comments, content_slots=...)
ExportOf(secs, store, arguments) ==
    IF arguments.content.method = "None"
    THEN ExportSlots(secs, store, arguments.structure, arguments.content.slots,
                     arguments.include_undefined, arguments.export_comments)
    ELSE Export(secs, store, arguments.structure, arguments.content.method,
                arguments.include_undefined, arguments.export_comments)

\* schema.read_ini(path) of a document into a new slot.
ReadContentCall ==
    /\ reads < MaxReads
    /\ \E document \in ContentDocuments :
           ReadAll(ReadIni(sections, schema_slots, default_parameters, document))
    /\ UNCHANGED << exported, returned, threads >>

\* schema.export(path, ...)
ExportWith(arguments) ==
    /\ reads > 0
    /\ exported' = [ round |-> 1,
                     arguments |-> arguments,
                     first |-> NoExport.first,
                     read |-> "none",
                     text |-> ExportOf(sections, schema_slots, arguments) ]
    /\ UNCHANGED << default_parameters, schema_slots, sections, pc, slots,
                    current_section, current_option, current_section_structure,
                    entity_index, reads, last, before, assigned, slot_store,
                    call, markers, returned, threads >>

ExportWithCall == \E arguments \in ExportArguments : ExportWith(arguments)

\* The places of a sequence that hold an item for the first time.
FirstPlaces(seq) ==
    LET first(i) == \A j \in 1..(i - 1) : seq[j] # seq[i]
    IN  SelectSeq([i \in 1..Len(seq) |-> i], first)

\* Section._get_options(include_undefined=True, slots=access): the keys of
\* the options; every option for None, the options of the Structure in its
\* order for one slot, and for several slots the options of the section
\* that some Structure of the slots lists.
GetOptions(sec, access) ==
    LET keys == SlotAccess(sec.slots, access)
        declared == SchemaStructure(sec)
        listed(entity) == \E i \in 1..Len(keys) :
                              Contains(Get(sec.slots, keys[i]), entity)
    IN  IF access.all
        THEN [ok |-> TRUE, keys |-> [i \in 1..Len(declared) |-> declared[i].ref]]
        ELSE IF \E i \in 1..Len(keys) : ~HasKey(sec.slots, keys[i])
        THEN [ok |-> FALSE, error |-> "SlotNotFound"]
        ELSE IF Len(keys) = 1
        THEN LET options == SelectSeq(Get(sec.slots, keys[1]),
                                      LAMBDA entity : entity.kind = "option")
                 first == FirstPlaces(options)
             IN  [ok |-> TRUE,
                  keys |-> [i \in 1..Len(first) |-> options[first[i]].ref]]
        ELSE LET both == SelectSeq(declared, listed)
             IN  [ok |-> TRUE, keys |-> [i \in 1..Len(both) |-> both[i].ref]]

\* section.get_options(slots=access)
GetOptionsCall ==
    /\ reads > 0
    /\ \E s \in DOMAIN sections, access \in StructureAccesses :
           returned' = [ op |-> "get_options",
                         arguments |-> [section |-> s, access |-> access],
                         value |-> GetOptions(sections[s], access) ]
    /\ UNCHANGED << default_parameters, schema_slots, sections, pc, slots,
                    current_section, current_option, current_section_structure,
                    entity_index, reads, last, before, assigned, slot_store,
                    call, markers, exported, threads >>

\* schema.get_sections(slots=access): the names of the sections.
GetSectionsCall ==
    /\ reads > 0
    /\ \E access \in StructureAccesses :
           LET keys == SlotAccess(schema_slots, access)
               found == \A i \in 1..Len(keys) : HasKey(schema_slots, keys[i])
               names == GetSections(sections, schema_slots, TRUE, access.all, keys)
           IN  returned' =
                   [ op |-> "get_sections",
                     arguments |-> [section |-> None, access |-> access],
                     value |-> IF found
                               THEN [ok |-> TRUE,
                                     keys |-> [i \in 1..Len(names) |->
                                                  sections[names[i]].name]]
                               ELSE [ok |-> FALSE, error |-> "SlotNotFound"] ]
    /\ UNCHANGED << default_parameters, schema_slots, sections, pc, slots,
                    current_section, current_option, current_section_structure,
                    entity_index, reads, last, before, assigned, slot_store,
                    call, markers, exported, threads >>

\* A constructed Schema whose section "a" declares x and y, with the
\* default parameters or with undefined entities read.
InitContent ==
    /\ default_parameters \in { Parameters, [Parameters EXCEPT !.read_undefined = "True"] }
    /\ schema_slots = <<>>
    /\ sections = (<<"a">> :> DefinedSection(<<"a">>, {<<"x">>, <<"y">>}))
    /\ pc = "idle"
    /\ slots = 0
    /\ current_section = None
    /\ current_option = NoOption
    /\ current_section_structure = <<>>
    /\ entity_index = 0
    /\ reads = 0
    /\ last = Step(None, None, NoOption, "none", "none")
    /\ before = [sections |-> sections, schema_slots |-> schema_slots]
    /\ assigned = <<>>
    /\ slot_store = <<>>
    /\ call = NoCall
    /\ markers = NoParameters
    /\ exported = NoExport
    /\ returned = NoReturn
    /\ threads = NoThreads

\* Reads and exports of the schema.
NextContent ==
    \/ ReadContentCall
    \/ ExportWithCall

SpecContent == InitContent /\ [][NextContent]_vars

\* Reads of the schema and calls that return its entities.
NextQueries ==
    \/ ReadContentCall
    \/ GetOptionsCall
    \/ GetSectionsCall

SpecQueries == InitContent /\ [][NextQueries]_vars

\* --------------------------------------------- reads with parameters

\* The documents read with parameters: an assignment with a text under it,
\* an undeclared section, and an assignment alone.
ParameterDocuments ==
    { << <<"[", "a", "]">>, <<"x", "=", "1">>, <<"t">> >>,
      << <<"[", "u", "]">>, <<"x", "=", "1">> >>,
      << <<"[", "a", "]">>, <<"x", "=", "1">> >> }

\* The parameters argument: None, or a Parameters object of the caller.
GivenParameters ==
    { [none |-> TRUE, object |-> Parameters],
      [none |-> FALSE, object |-> [Parameters EXCEPT !.multiline_prefix = <<">">>]] }

\* The keyword arguments: none, multiline_allowed=False, or
\* read_undefined=True.
KeywordArguments ==
    { [names |-> {}, values |-> Parameters],
      [names |-> {"multiline_allowed"},
       values |-> [Parameters EXCEPT !.multiline_allowed = FALSE]],
      [names |-> {"read_undefined"},
       values |-> [Parameters EXCEPT !.read_undefined = "True"]] }

\* Parameters.update(**kwargs): setattr for every keyword.
Update(p, kwargs) ==
    [f \in DOMAIN p |-> IF f \in kwargs.names THEN kwargs.values[f] ELSE p[f]]

\* The first lines of _ReadIni.__new__: with parameters None the object of
\* the read is the schema's default object itself, no copy of it, and the
\* keywords are set on that object; parameters_as_default makes the object
\* of the read the default.
DefineParameters(defaults, given, kwargs, parameters_as_default) ==
    LET parameters == Update(IF given.none THEN defaults ELSE given.object, kwargs)
    IN  [ parameters |-> parameters,
          defaults |-> IF given.none \/ parameters_as_default
                       THEN parameters ELSE defaults ]

\* schema.read_ini(path, parameters, parameters_as_default, **kwargs) of a
\* document into a new slot.
ReadIniWith(document, given, kwargs, parameters_as_default) ==
    LET defined == DefineParameters(default_parameters, given, kwargs,
                                    parameters_as_default)
        r == ReadIni(sections, schema_slots, defined.parameters, document)
    IN  /\ reads < MaxReads
        /\ default_parameters' = defined.defaults
        /\ sections' = r.sections
        /\ schema_slots' = r.schema_slots
        /\ slots' = r.slot
        /\ reads' = reads + 1
        /\ last' = Step(None, None, NoOption, "none", r.outcome)
        /\ before' = [sections |-> sections, schema_slots |-> schema_slots]
        /\ UNCHANGED << pc, current_section, current_option,
                        current_section_structure, entity_index, assigned,
                        slot_store, call, markers, exported, returned, threads >>

ReadIniWithCall ==
    \E document \in ParameterDocuments, given \in GivenParameters :
        \E kwargs \in KeywordArguments, parameters_as_default \in BOOLEAN :
            ReadIniWith(document, given, kwargs, parameters_as_default)

NextDefaults == ReadIniWithCall

SpecDefaults == InitCalls /\ [][NextDefaults]_vars

\* ------------------------------------------------------ two reads at once

\* The documents of the two reads: the declared section with two comments
\* and an assignment, with another comment, with an assignment only, and
\* an undeclared section with an assignment.
RaceDocuments ==
    { << <<"[", "a", "]">>, <<";", "c">>, <<"x", "=", "1">>, <<";", "c">> >>,
      << <<"[", "a", "]">>, <<";", "t">> >>,
      << <<"[", "a", "]">>, <<"x", "=", "2">> >>,
      << <<"[", "u", "]">>, <<"n", "=", "2">> >> }

\* The parameters of the schema that is read twice at once: the defaults,
\* and the defaults with undefined entities read.
RaceParameters ==
    { Parameters, [Parameters EXCEPT !.read_undefined = "True"] }

\* The sections of the constructed schema.
ConstructedSections == (<<"a">> :> DefinedSection(<<"a">>, {<<"x">>}))

\* A read that has not begun.
NewRead(document) ==
    [ pc |-> "new",
      document |-> document,
      entity_index |-> 0,
      slots |-> 0,
      current_section |-> None,
      current_option |-> NoOption,
      current_section_structure |-> <<>> ]

\* Every read may take its next step whatever the other read does.
MayRunAlways(t) == TRUE

\* A read may take its next step: always when the caller does not
\* serialize the reads, and otherwise while no other read is under way.
MayRun(t) ==
    threads.serialized =>
        \A o \in DOMAIN threads.read :
            o # t => threads.read[o].pc \in {"new", "done"}

\* The view of the model of read t: the schema, which the reads share, and
\* the loop variables of the read.
EnvOf(t) ==
    [ sections |-> sections,
      schema_slots |-> schema_slots,
      current_section |-> threads.read[t].current_section,
      current_option |-> threads.read[t].current_option,
      structure |-> threads.read[t].current_section_structure ]

\* _ReadIni.__new__ of read t from the slot handling to the start of the
\* loop, with slots=False.
ThreadBegin(t) ==
    LET S == NewSlotKey(schema_slots)
        unnamed == GetUnnamedSection(sections, default_parameters)
    IN  /\ threads.read[t].pc = "new"
        /\ MayRun(t)
        /\ schema_slots' = AddSlot(schema_slots, S, <<>>)
        /\ sections' = unnamed.sections
        /\ threads' = [threads EXCEPT
               !.read[t].pc = "reading",
               !.read[t].slots = S,
               !.read[t].current_section = unnamed.section]

\* One iteration of the loop of read t.
ThreadEntity(t) ==
    LET read == threads.read[t]
        r == ReadLine(EnvOf(t), read.document[read.entity_index + 1],
                      default_parameters, read.slots)
        fault == r.outcome \in Faults
    IN  /\ read.pc = "reading"
        /\ read.entity_index < Len(read.document)
        /\ MayRun(t)
        /\ sections' = r.sections
        /\ schema_slots' = r.schema_slots
        /\ threads' = [threads EXCEPT
               !.read[t].pc = IF fault THEN "done" ELSE "reading",
               !.read[t].entity_index = @ + 1,
               !.read[t].current_section = r.current_section,
               !.read[t].current_option = r.current_option,
               !.read[t].current_section_structure = r.structure]

\* The end of the document of read t.
ThreadEnd(t) ==
    /\ threads.read[t].pc = "reading"
    /\ threads.read[t].entity_index = Len(threads.read[t].document)
    /\ MayRun(t)
    /\ sections' = GetUnnamedSection(sections, default_parameters).sections
    /\ schema_slots' = schema_slots
    /\ threads' = [threads EXCEPT !.read[t].pc = "done"]

\* A step of one of the reads; the variables of the single reader and of
\* the calls stay as they are.
ThreadStep ==
    /\ \E t \in DOMAIN threads.read :
           ThreadBegin(t) \/ ThreadEntity(t) \/ ThreadEnd(t)
    /\ UNCHANGED << default_parameters, pc, slots, current_section,
                    current_option, current_section_structure, entity_index,
                    reads, last, before, assigned, slot_store, call, markers,
                    exported, returned >>

\* A constructed Schema and two reads of it from two threads, with the
\* caller serializing them or not.
InitRaces ==
    /\ default_parameters \in RaceParameters
    /\ schema_slots = <<>>
    /\ sections = ConstructedSections
    /\ pc = "idle"
    /\ slots = 0
    /\ current_section = None
    /\ current_option = NoOption
    /\ current_section_structure = <<>>
    /\ entity_index = 0
    /\ reads = 0
    /\ last = Step(None, None, NoOption, "none", "none")
    /\ before = [sections |-> sections, schema_slots |-> schema_slots]
    /\ assigned = <<>>
    /\ slot_store = <<>>
    /\ call = NoCall
    /\ markers = NoParameters
    /\ exported = NoExport
    /\ returned = NoReturn
    /\ threads \in { [ serialized |-> serialized,
                       read |-> << NewRead(first), NewRead(second) >> ] :
                         serialized \in BOOLEAN,
                         first \in RaceDocuments, second \in RaceDocuments }

NextRaces == ThreadStep

SpecRaces == InitRaces /\ [][NextRaces]_vars

\* ---------------------------------------------------- option extraction

\* The length of the strings an option is extracted from.
MaxString == 4

\* Their characters: a word character, a key character that is no word
\* character, two delimiters, whitespace, and a character of neither kind.
StringChars == {"a", "-", "=", ":", " ", "?"}

Strings == UNION { [1..n -> StringChars] : n \in 0..MaxString }

\* The delimiter arguments: one marker, and a tuple of two.
DelimiterChoices == { {"="}, {"=", ":"} }

\* Option.from_string(string, delimiter): the Option, or ExtractionError.
FromStringCall ==
    /\ returned.op = "string"
    /\ returned' = [ op |-> "from_string",
                     arguments |-> returned.arguments,
                     value |-> ExtractOption(returned.arguments.string,
                                             returned.arguments.delimiter) ]
    /\ UNCHANGED << default_parameters, schema_slots, sections, pc, slots,
                    current_section, current_option, current_section_structure,
                    entity_index, reads, last, before, assigned, slot_store,
                    call, markers, exported, threads >>

NextExtraction == FromStringCall

\* A constructed Schema, and a string and the delimiters to extract an
\* option with.
InitExtraction ==
    /\ default_parameters = Parameters
    /\ schema_slots = <<>>
    /\ sections = (<<"a">> :> DefinedSection(<<"a">>, {<<"x">>}))
    /\ pc = "idle"
    /\ slots = 0
    /\ current_section = None
    /\ current_option = NoOption
    /\ current_section_structure = <<>>
    /\ entity_index = 0
    /\ reads = 0
    /\ last = Step(None, None, NoOption, "none", "none")
    /\ before = [sections |-> sections, schema_slots |-> schema_slots]
    /\ assigned = <<>>
    /\ slot_store = <<>>
    /\ call = NoCall
    /\ markers = NoParameters
    /\ exported = NoExport
    /\ returned \in { [ op |-> "string",
                        arguments |-> [string |-> string, delimiter |-> delimiter],
                        value |-> <<>> ] :
                          string \in Strings, delimiter \in DelimiterChoices }
    /\ threads = NoThreads

SpecExtraction == InitExtraction /\ [][NextExtraction]_vars

\* ----------------------------------------------------------- properties

\* What an ordered dictionary holds under the key k: one value, or nothing.
Entry(od, k) == IF HasKey(od, k) THEN <<Get(od, k)>> ELSE <<>>

\* What the option holds under the slot key S in the sections secs.
OptionEntry(secs, option, S) ==
    IF option = NoOption THEN <<>>
    ELSE Entry(secs[option.sec]
                   .options[GetOption(secs[option.sec], option.key)].slots, S)

\* A line of the document without the configured multiline prefix.
WithoutPrefix(line) ==
    SubSeq(line, Len(default_parameters.multiline_prefix) + 1, Len(line))

\* C1 -- Slot isolation.  While and after a document is read into a slot,
\* whatever the schema, its sections and their options hold under every
\* other slot key is what they held there immediately before that read:
\* the schema's Structure, each section's Structure, each option's raw
\* input and converted value; and nothing appears under another key.
C1_SlotIsolation ==
    \A A \in 0..(2 * MaxReads) :
        A # slots =>
            /\ Entry(schema_slots, A) = Entry(before.schema_slots, A)
            /\ \A v \in DOMAIN sections :
                IF v \in DOMAIN before.sections
                THEN /\ Entry(sections[v].slots, A) =
                            Entry(before.sections[v].slots, A)
                     /\ \A o \in DOMAIN sections[v].options :
                            Entry(sections[v].options[o].slots, A) =
                                Entry(before.sections[v].options[o].slots, A)
                ELSE /\ ~HasKey(sections[v].slots, A)
                     /\ \A o \in DOMAIN sections[v].options :
                            ~HasKey(sections[v].options[o].slots, A)

\* Two documents have been read, the first into slot 0 and the second into
\* slot 1; both assign option x, with different values, and slot 0 still
\* holds the first document's value and Structures.
C1_Witness ==
    /\ pc = "idle"
    /\ reads = 2
    /\ slots = 1
    /\ last.outcome = "end"
    /\ Entry(sections[<<"a">>].options[<<"x">>].slots, 0) =
           << SlotValue(<<"1">>) >>
    /\ Entry(sections[<<"a">>].options[<<"x">>].slots, 1) = << SlotValue(None) >>
    /\ Entry(sections[<<"a">>].slots, 0) = << <<OptionEntity(<<"x">>)>> >>
    /\ Entry(schema_slots, 0) = << << <<"a">> >> >>

\* The texts the open option has been given: the value of its assignment
\* line, then each continuation line without the multiline prefix.
Expected ==
    [i \in 1..Len(assigned) |->
        IF i = 1
        THEN ExtractOption(assigned[1], OptionDelimiters).value
        ELSE WithoutPrefix(assigned[i])]

\* C3 -- Multiline accumulation.  After an option assignment and N >= 1
\* accepted continuation lines, the option's raw input in the active slot
\* is the list of the assigned value and the N continuation texts in
\* document order, each without the multiline prefix, and its converted
\* value is the list of the converter's results on those elements.
C3_MultilineAccumulation ==
    (current_option # NoOption /\ Len(assigned) >= 2) =>
        OptionEntry(sections, current_option, slots) =
            << [ input |-> [t |-> "multiline", v |-> Expected],
                 converted |-> [t |-> "multiline",
                                v |-> [i \in 1..Len(Expected) |->
                                          Convert(Expected[i])]] ] >>

\* An assignment and two continuation lines carrying the prefix ">": the
\* option holds three elements, the prefix removed, the number converted.
C3_Witness ==
    /\ default_parameters.multiline_prefix = <<">">>
    /\ current_option = [sec |-> <<"a">>, key |-> <<"x">>]
    /\ assigned = << <<"x", "=", "1">>, <<">", "t">>, <<">", "t">> >>
    /\ OptionEntry(sections, current_option, slots) =
           << [ input |-> [t |-> "multiline", v |-> << <<"1">>, <<"t">>, <<"t">> >>],
                converted |-> [t |-> "multiline",
                               v |-> << [t |-> "int", v |-> 1],
                                        [t |-> "str", v |-> <<"t">>],
                                        [t |-> "str", v |-> <<"t">>] >>] ] >>

\* The option line's key and value.
Extracted(line) == ExtractOption(line, OptionDelimiters)

\* C2 -- An accepted option assignment is held under the slot of the read.
\* After a read into slot S has taken a line for an option assignment whose
\* key is defined, or is undefined while read_undefined allows undefined
\* options, some option with that key holds the assigned value under S.
C2_AssignmentHeldUnderSlot ==
    ( /\ last.kind = "option"
      /\ \/ last.outcome = "option"
         \/ default_parameters.read_undefined \in {"True", "option"} )
    => \E v \in DOMAIN sections :
           \E o \in DOMAIN sections[v].options :
               /\ sections[v].options[o].key = Extracted(last.text).key
               /\ Entry(sections[v].options[o].slots, slots) =
                      << SlotValue(Extracted(last.text).value) >>

\* C4 -- Undefined-option policy.  An option line whose key is no option of
\* the current section (one that a header has made current) is dropped when read_undefined does not allow
\* undefined options: nothing of the document model changes and the read
\* goes on; when it allows them, the section afterwards has an option with
\* that key holding the value under the slot.
C4_UndefinedOptionPolicy ==
    [][ ( /\ pc = "reading"
          /\ last'.kind = "option"
          /\ current_section # UNNAMED_SECTION_NAME
          /\ GetOption(sections[current_section],
                       Extracted(last'.text).key) = None )
        => IF default_parameters.read_undefined \in {"True", "option"}
           THEN /\ pc' = "reading"
                /\ GetOption(sections'[current_section],
                             Extracted(last'.text).key) # None
                /\ OptionEntry(sections',
                               [sec |-> current_section,
                                key |-> Extracted(last'.text).key], slots) =
                       << SlotValue(Extracted(last'.text).value) >>
           ELSE /\ pc' = "reading"
                /\ sections' = sections
                /\ schema_slots' = schema_slots ]_vars

\* C5 -- Undefined-section policy.  A header with an unknown name creates a
\* section exactly when read_undefined is True or "section"; the option
\* and comment lines read in a section so created are stored in it; and
\* while no section is addressable every line that is no header is dropped:
\* the document model is unchanged and the read goes on.
C5_UndefinedSectionPolicy ==
    [][ /\ ( /\ pc = "reading"
             /\ last'.kind = "section_name"
             /\ GetSection(sections, SectionName(last'.text).name) = None )
           => /\ pc' = "reading"
              /\ (default_parameters.read_undefined \in {"True", "section"})
                     <=> (DOMAIN sections' # DOMAIN sections)
              /\ (default_parameters.read_undefined \notin {"True", "section"})
                     => current_section' = None
        /\ ( /\ pc = "reading"
             /\ current_section \notin {None, UNNAMED_SECTION_NAME}
             /\ sections[current_section].undefined
             /\ last'.kind = "option" )
           => /\ pc' = "reading"
              /\ OptionEntry(sections',
                             [sec |-> current_section,
                              key |-> Extracted(last'.text).key], slots) =
                     << SlotValue(Extracted(last'.text).value) >>
        /\ ( /\ pc = "reading"
             /\ current_section \notin {None, UNNAMED_SECTION_NAME}
             /\ sections[current_section].undefined
             /\ last'.kind = "comment" )
           => /\ pc' = "reading"
              /\ Len(sections'[current_section].comments) =
                     Len(sections[current_section].comments) + 1
        /\ ( /\ pc = "reading"
             /\ current_section = None
             /\ last'.kind \notin {"none", "section_name"} )
           => /\ pc' = "reading"
              /\ sections' = sections
              /\ schema_slots' = schema_slots ]_vars

\* The marker class a text shows: that of the first extractor, in the order
\* of the loop, that matches it.
LooksLike(text) ==
    IF ExtractSectionName(text).ok THEN "section_name"
    ELSE IF ExtractComment(text, CommentPrefixes).ok THEN "comment_prefix"
    ELSE IF ExtractOption(text, OptionDelimiters).ok THEN "option_delimiter"
    ELSE "none"

IsWhitespace(text) == \A i \in 1..Len(text) : text[i] \in Whitespace

\* The open option's value after text has been appended to it.
Appended(option, text) ==
    << AddContinuation(OptionEntry(sections, option, slots)[1], text) >>

\* C6 -- multiline_ignore gating.  While an option is open and the line is
\* continuation-eligible, a line that shows a marker (a section header, a
\* comment, an option assignment) is appended to the open option's value,
\* and nothing else changes, exactly when the marker's class is listed in
\* multiline_ignore; otherwise it is not appended and starts the entity it
\* shows.
C6_MultilineIgnoreGating ==
    [][ ( /\ pc = "reading"
          /\ last'.kind # "none"
          /\ current_option # NoOption
          /\ CheckForPossibleContinuation(last'.line, current_option,
                                          default_parameters).possible
          /\ ~IsEmptyEntity(last'.text, default_parameters)
          /\ LooksLike(last'.text) # "none" )
        => IF LooksLike(last'.text) \in default_parameters.multiline_ignore
           THEN /\ last'.outcome = "continuation"
                /\ OptionEntry(sections', current_option, slots) =
                       Appended(current_option, last'.text)
                /\ DOMAIN sections' = DOMAIN sections
           ELSE /\ last'.outcome \in {"section", "no_section", "comment", "option"}
                /\ last'.outcome # "option" =>
                       OptionEntry(sections', current_option, slots) =
                           OptionEntry(sections, current_option, slots) ]_vars

\* C8 -- A section header closes the open option.  After a header has been
\* handled no option is open, and a text line directly after a header that
\* made a section current ends the read with the structural fault.
C8_HeaderClosesOption ==
    [][ /\ (pc = "reading" /\ last'.kind = "section_name" /\ pc' = "reading")
               => current_option' = NoOption
        /\ ( /\ pc = "reading"
             /\ last.outcome = "section"
             /\ last'.kind = "text" )
               => /\ last'.outcome = "IniStructureError"
                  /\ sections' = sections ]_vars

\* C10 -- Multiline disabled.  With multiline_allowed false, a line that is
\* not blank and matches no extractor while an option is open ends in the
\* multiline-not-allowed fault, and the document model, the open option's
\* scalar value included, is unchanged.
C10_MultilineDisabled ==
    [][ ( /\ pc = "reading"
          /\ last'.kind # "none"
          /\ ~default_parameters.multiline_allowed
          /\ current_option # NoOption
          /\ ~IsEmptyEntity(last'.line, default_parameters)
          /\ LooksLike(last'.line) = "none" )
        => /\ last'.outcome = "MultilineNotAllowed"
           /\ sections' = sections ]_vars

\* A step that consumes an entity whose text, after the removal of the
\* multiline prefix, is empty, or whitespace-only while whitespace lines
\* are ignored.
BlankStep ==
    /\ pc = "reading"
    /\ last'.kind # "none"
    /\ \/ last'.text = <<>>
       \/ default_parameters.ignore_whitespace_lines /\ IsWhitespace(last'.text)

\* A step that consumes a whitespace-only entity while whitespace lines are
\* kept and an option is open.
WhitespaceStep ==
    /\ pc = "reading"
    /\ last'.kind # "none"
    /\ ~default_parameters.ignore_whitespace_lines
    /\ last'.text # <<>>
    /\ IsWhitespace(last'.text)
    /\ current_option # NoOption

\* A blank entity is consumed and closes the open option; nothing of the
\* document model changes and the read goes on.
BlankCloses ==
    BlankStep =>
        /\ current_option' = NoOption
        /\ assigned' = <<>>
        /\ pc' = "reading"
        /\ sections' = sections
        /\ schema_slots' = schema_slots

C9_CommentKeepsOptionOpen ==
    [][ /\ (pc = "reading" /\ last'.kind = "comment" /\ pc' = "reading")
               => /\ current_option' = current_option
                  /\ assigned' = assigned
                  /\ OptionEntry(sections', current_option, slots) =
                         OptionEntry(sections, current_option, slots)
        /\ ( /\ pc = "reading"
             /\ last.kind = "comment"
             /\ last.option # NoOption
             /\ last'.kind = "text"
             /\ CheckForPossibleContinuation(
                    last'.line, last.option, default_parameters).possible )
               => /\ last'.outcome = "continuation"
                  /\ OptionEntry(sections', last.option, slots) =
                         Appended(last.option, last'.text) ]_vars

\* Option x was assigned, a comment followed, and the text line after the
\* comment is the second element of x's value.
C9_Witness ==
    /\ last.kind = "text"
    /\ last.outcome = "continuation"
    /\ current_section_structure = <<OptionEntity(<<"x">>), CommentEntity(0)>>
    /\ assigned = << <<"x", "=", "1">>, <<"t">> >>
    /\ OptionEntry(sections, current_option, slots) =
           << AddContinuation(SlotValue(<<"1">>), <<"t">>) >>

C12_FreshAssignmentOverwrites ==
    [][ ( /\ pc = "reading"
          /\ last'.outcome = "option"
          /\ OptionEntry(sections, current_option', slots) # <<>> )
        => OptionEntry(sections', current_option', slots) =
               << SlotValue(Extracted(last'.text).value) >> ]_vars

\* A second read into slot 0 has assigned "x=" in section a, where slot 0
\* held "1" from the first read: slot 0 now holds None alone.
C12_Witness ==
    /\ reads = 2
    /\ slots = 0
    /\ last.line = <<"x", "=">>
    /\ last.outcome = "option"
    /\ Entry(before.sections[<<"a">>].options[<<"x">>].slots, 0) =
           << SlotValue(<<"1">>) >>
    /\ Entry(sections[<<"a">>].options[<<"x">>].slots, 0) = << SlotValue(None) >>

\* C13 -- The recognizers are tried in the order section header, comment,
\* option.  A line that starts with a comment prefix and holds an option
\* delimiter after a key-like word, read in a current section with the
\* comment recognizer not gated by multiline_ignore, is taken as a comment:
\* it is stored as the section's next comment and no option changes.
C13_CommentBeforeOption ==
    [][ ( /\ pc = "reading"
          /\ current_section # None
          /\ Len(last'.text) >= 2
          /\ last'.text[1] \in CommentPrefixes
          /\ Extracted(last'.text).ok
          /\ Tries(CheckForPossibleContinuation(
                       last'.line, current_option, default_parameters).possible,
                   "comment_prefix", default_parameters) )
        => /\ last'.kind = "comment"
           /\ \A s \in DOMAIN sections :
                 sections'[s].options = sections[s].options
           /\ sections'[current_section].comments =
                 Append(sections[current_section].comments,
                        Strip(Tail(last'.text)))
           /\ last'.outcome = "comment"
                 => /\ current_option' = current_option
                    /\ current_section_structure' =
                          Append(current_section_structure,
                                 CommentEntity(
                                     Len(sections[current_section].comments))) ]_vars

\* In section a, with x assigned "1" before, the line ";x=1" has become the
\* section's first comment and x still holds the one value "1".
C13_Witness ==
    /\ last.line = <<";", "x", "=", "1">>
    /\ last.kind = "comment"
    /\ last.outcome = "comment"
    /\ current_section = <<"a">>
    /\ current_section_structure = <<OptionEntity(<<"x">>), CommentEntity(0)>>
    /\ sections[<<"a">>].comments = << <<"x", "=", "1">> >>
    /\ assigned = << <<"x", "=", "1">> >>

\* ------------------------------------------------------------- slot views

\* The decider methods a Schema can be constructed with.
SlotDeciderMethods == {"fallback", "first", "cascade up", "latest", "cascade down"}

\* _SlotEntity._get_slots(slots): the slot's value, or the default (None,
\* here the empty sequence) on SlotNotFound.  A value a slot holds is an
\* OptionSlotValue or a Structure object, never None itself.
GetSlots(od, k) == IF HasKey(od, k) THEN <<Get(od, k)>> ELSE <<>>

\* SlotDecider._decision(target, reference_slots, method): the key and the
\* value of the decided slot.  `is not None` tests the slot's value object;
\* next() over no slot raises StopIteration.
Decision(target, reference_slots, method) ==
    LET latest_key == Last(reference_slots).k
        first_key == reference_slots[1].k
        latest_val == GetSlots(target, latest_key)
    IN  IF method = "fallback"
        THEN IF latest_val # <<>>
             THEN [ok |-> TRUE, key |-> latest_key, val |-> latest_val]
             ELSE [ok |-> TRUE, key |-> first_key,
                   val |-> GetSlots(target, first_key)]
        ELSE IF method = "first"
        THEN [ok |-> TRUE, key |-> first_key, val |-> GetSlots(target, first_key)]
        ELSE IF method = "latest"
        THEN [ok |-> TRUE, key |-> latest_key, val |-> latest_val]
        ELSE IF target = <<>> THEN [ok |-> FALSE, error |-> "StopIteration"]
        ELSE IF method = "cascade up"
        THEN [ok |-> TRUE, key |-> target[1].k, val |-> <<target[1].v>>]
        ELSE [ok |-> TRUE, key |-> Last(target).k, val |-> <<Last(target).v>>]

\* SlotDecider.__getattribute__ for an option: _decide_slot(attr)[1]
\* .converted, an AttributeError when the decided value is None.
DecideOption(option, reference_slots, method) ==
    LET d == Decision(option.slots, reference_slots, method)
    IN  IF ~d.ok THEN d
        ELSE IF d.val = <<>> THEN [ok |-> FALSE, error |-> "AttributeError"]
        ELSE [ok |-> TRUE, key |-> d.key, converted |-> d.val[1].converted]

\* The raw input of the slot value is None.
IsNoneInput(value) == value.input.t = "scalar" /\ value.input.v = None

\* The option's slots hold, in insertion order, None and then a value.
NoneThenValue(option) ==
    /\ Len(option.slots) = 2
    /\ Keys(option.slots) = Keys(schema_slots)
    /\ IsNoneInput(option.slots[1].v)
    /\ ~IsNoneInput(option.slots[2].v)

\* The decided value of the option under the method is the converted value
\* of its i-th slot (the keys of an option's slots are distinct).
Decides(option, method, i) ==
    LET d == DecideOption(option, schema_slots, method)
    IN  d.ok /\ d.key = option.slots[i].k

\* C14 -- Decider consistency.  For an option whose slots are, in insertion
\* order, s0 holding None and s1 holding a value v, the decided value is v
\* under "fallback", None under "first", v under "latest", v under
\* "cascade up" and v under "cascade down".
C14_DeciderConsistency ==
    \A s \in DOMAIN sections : \A o \in DOMAIN sections[s].options :
        NoneThenValue(sections[s].options[o])
        => /\ Decides(sections[s].options[o], "fallback", 2)
           /\ Decides(sections[s].options[o], "first", 1)
           /\ Decides(sections[s].options[o], "latest", 2)
           /\ Decides(sections[s].options[o], "cascade up", 2)
           /\ Decides(sections[s].options[o], "cascade down", 2)

\* The places of the target's slots that do not count as None: for an
\* option those with a raw input, for a section those with a Structure
\* that is not empty.
Filled(target, isOption) ==
    { i \in 1..Len(target) :
        IF isOption THEN ~IsNoneInput(target[i].v) ELSE target[i].v # <<>> }

\* The slot key "fallback" is to decide: the latest slot when the target
\* holds a value there that does not count as None, else the first slot.
FallbackKey(target, isOption) ==
    IF \E i \in Filled(target, isOption) : target[i].k = Last(schema_slots).k
    THEN Last(schema_slots).k
    ELSE schema_slots[1].k

\* The two slot values are the same value.
SameValue(a, b, isOption) ==
    IF isOption
    THEN a.input.t = b.input.t /\ a.input.v = b.input.v
    ELSE /\ Len(a) = Len(b)
         /\ \A i \in 1..Len(a) : a[i].kind = b[i].kind /\ a[i].ref = b[i].ref

\* The method decides, for the target, the value the target holds under k.
DecidesValueOf(target, method, k, isOption) ==
    LET d == Decision(target, schema_slots, method)
    IN  d.ok /\ d.val # <<>> /\ SameValue(d.val[1], Get(target, k), isOption)

\* "fallback" and "cascade down" decide as described for the target.
DecidesAsDescribed(target, isOption) ==
    /\ HasKey(target, schema_slots[1].k)
          => DecidesValueOf(target, "fallback",
                            FallbackKey(target, isOption), isOption)
    /\ Filled(target, isOption) # {}
          => DecidesValueOf(target, "cascade down",
                 target[CHOOSE i \in Filled(target, isOption) :
                            \A j \in Filled(target, isOption) : j <= i].k,
                 isOption)

\* C15 -- "fallback" decides the latest slot's value when the option's raw
\* input in the latest slot is not None, and the first slot's value when it
\* is None or the option has no entry for the latest slot; "cascade down"
\* decides the value of the latest slot whose raw input is not None.  For
\* a section, a slot counts as None when its Structure is empty.
C15_FallbackAndCascadeDown ==
    schema_slots # <<>>
    => \A s \in DOMAIN sections :
          /\ DecidesAsDescribed(sections[s].slots, FALSE)
          /\ \A o \in DOMAIN sections[s].options :
                DecidesAsDescribed(sections[s].options[o].slots, TRUE)

ViewOptionLatest(option, slot) ==
    IF option.slots = <<>> THEN [ok |-> FALSE, error |-> "SlotNotFound"]
    ELSE [ok |-> TRUE, converted |-> Last(option.slots).v.converted]

\* schema[slot].section.option: SlotViewer.__getattribute__ returns
\* attr[slot].converted; Slots.__getitem__ raises SlotNotFound for a key
\* the option has no slot for.
ViewOption(option, slot) ==
    IF HasKey(option.slots, slot)
    THEN [ok |-> TRUE, converted |-> Get(option.slots, slot).converted]
    ELSE [ok |-> FALSE, error |-> "SlotNotFound"]

\* Two converted items are the same item.
SameItem(a, b) == a.t = b.t /\ a.v = b.v

\* Two converted values are the same value.
SameConverted(a, b) ==
    /\ a.t = b.t
    /\ IF a.t = "scalar" THEN SameItem(a.v, b.v)
       ELSE /\ Len(a.v) = Len(b.v)
            /\ \A i \in 1..Len(a.v) : SameItem(a.v[i], b.v[i])

\* The view of the option under the slot key S shows what the slots od hold
\* under S: the converted value there, or slot-not-found.
Shows(option, S, od) ==
    LET view == ViewOption(option, S)
    IN  IF HasKey(od, S)
        THEN view.ok /\ SameConverted(view.converted, Get(od, S).converted)
        ELSE ~view.ok /\ view.error = "SlotNotFound"

\* C16 -- The per-slot view.  schema[S].section.option is the converted
\* value the option holds under S, whatever the decider method and whatever
\* the other slots hold: the value just assigned when S is the slot being
\* read, what S held when the read began when another slot is being read;
\* it is slot-not-found when the option has no entry for S.
C16_PerSlotView ==
    \A s \in DOMAIN sections : \A o \in DOMAIN sections[s].options :
        \A S \in SlotKeyChoices :
            /\ Shows(sections[s].options[o], S, sections[s].options[o].slots)
            /\ ( /\ S = slots
                 /\ last.outcome = "option"
                 /\ current_option = [sec |-> s, key |-> sections[s].options[o].key] )
               => Shows(sections[s].options[o], S,
                        << [k |-> S, v |-> SlotValue(Extracted(last.text).value)] >>)
            /\ (S # slots /\ s \in DOMAIN before.sections)
               => Shows(sections[s].options[o], S,
                        before.sections[s].options[o].slots)

\* Option x holds "1" under slot 0 and None under slot 1: the view of slot
\* 0 shows 1 and the view of slot 1 shows None, while the decider under
\* "fallback" decides slot 1.
C16_Witness ==
    /\ reads = 2
    /\ slots = 1
    /\ Shows(sections[<<"a">>].options[<<"x">>], 0,
             << [k |-> 0, v |-> SlotValue(<<"1">>)] >>)
    /\ Shows(sections[<<"a">>].options[<<"x">>], 1,
             << [k |-> 1, v |-> SlotValue(None)] >>)
    /\ DecideOption(sections[<<"a">>].options[<<"x">>], schema_slots,
                    "fallback").key = 1

\* The comments the section held when the current read began.
CommentsBefore(s) ==
    IF s \in DOMAIN before.sections THEN Len(before.sections[s].comments) ELSE 0

\* C17 -- The final flush.  When a read into slot S completes, the
\* Structure under S of the section the document ended in is the sequence
\* of options and comments accepted in that section during this read, also
\* when S held a Structure from an earlier read: it holds what was accepted
\* since the section's last header, and no comment of an earlier read
\* (every accepted comment line is a new comment of the section).
C17_FinalFlush ==
    [][ ( /\ pc = "reading"
          /\ pc' = "idle"
          /\ last'.outcome = "end"
          /\ current_section # None
          /\ SlotFound(sections[current_section].slots, slots) )
        => LET structure == Get(sections'[current_section].slots, slots)
           IN  /\ \A i \in 1..Len(current_section_structure) :
                     Contains(structure, current_section_structure[i])
               /\ \A i \in 1..Len(structure) :
                     structure[i].kind = "comment"
                     => structure[i].ref >= CommentsBefore(current_section) ]_vars

\* C18 -- The cleanup of the section with no name.  After a read has
\* completed, a section with no name that is an UndefinedSection with no
\* slot is not an attribute of the Schema any more: looking it up fails
\* with entity-not-found.
C18_UnnamedSectionCleanup ==
    (pc = "idle" /\ last.outcome = "end")
    => \/ GetSection(sections, None) = None
       \/ ~sections[GetSection(sections, None)].undefined
       \/ sections[GetSection(sections, None)].slots # <<>>

\* C19 -- Content before the first header.  An option or a comment read
\* while the current section is the section with no name (an
\* UndefinedSection the read created, read_undefined being True or
\* "section") is stored in that section under the slot of the read, after
\* what was stored there before it, and the read goes on.
C19_ContentBeforeFirstHeader ==
    [][ ( /\ pc = "reading"
          /\ current_section # None
          /\ sections[current_section].name = None
          /\ last'.kind \in {"comment", "option"} )
        => /\ last'.outcome = last'.kind
           /\ pc' = "reading"
           /\ Len(current_section_structure') =
                  Len(current_section_structure) + 1
           /\ Entry(sections'[current_section].slots, slots) =
                  << current_section_structure' >> ]_vars

UniqueSections(secs) ==
    \A v, w \in DOMAIN secs : secs[v].name = secs[w].name => v = w

UniqueOptions(sec) ==
    \A v, w \in DOMAIN sec.options :
        sec.options[v].key = sec.options[w].key => v = w

\* Every section of secs is an attribute of later under the same attribute
\* name, with its name and with each of its options under its key.
Remain(secs, later) ==
    \A v \in DOMAIN secs :
        /\ v \in DOMAIN later
        /\ later[v].name = secs[v].name
        /\ later[v].undefined = secs[v].undefined
        /\ \A o \in DOMAIN secs[v].options :
               /\ o \in DOMAIN later[v].options
               /\ later[v].options[o].key = secs[v].options[o].key

\* C21: a section or option, once it is an attribute of the Schema or of
\* its Section, remains that attribute through every later step, a later
\* header of its name or assignment of its key reusing it: no step removes
\* or replaces a section or an option, the Schema never has two sections of
\* one name, and no Section has two options of one key.
C21_EntitiesRemainAndAreReused ==
    [][ /\ Remain(sections, sections')
        /\ UniqueSections(sections')
        /\ \A v \in DOMAIN sections' : UniqueOptions(sections'[v]) ]_vars

\* -------------------------------------------------------- failure scoping

\* The faults of the end of the loop body: text with no open option,
\* a continuation where multiline is not allowed, a continuation that
\* breaks the multiline rules.
StructuralFaults == {"IniStructureError", "MultilineNotAllowed", "MultilineRules"}

\* Under every slot key the schema had when the read began, the schema,
\* each section and each option hold what they held then.
PriorSlotsUnchanged ==
    \A A \in { k \in 0..(2 * MaxReads) : HasKey(before.schema_slots, k) } :
        /\ Entry(schema_slots, A) = Entry(before.schema_slots, A)
        /\ \A v \in DOMAIN before.sections :
               /\ v \in DOMAIN sections
               /\ Entry(sections[v].slots, A) = Entry(before.sections[v].slots, A)
               /\ \A o \in DOMAIN before.sections[v].options :
                      /\ o \in DOMAIN sections[v].options
                      /\ Entry(sections[v].options[o].slots, A) =
                             Entry(before.sections[v].options[o].slots, A)

\* C22: when a read into a slot that the read itself allocated ends in a
\* structural fault, the step of the fault changes nothing of the sections
\* and of the schema's Structures, so that all that the entities before the
\* fault wrote stays written, and what was held under the slot keys that
\* existed before the read is what it was when the read began.
C22_FailureScoping ==
    [][ (last'.outcome \in StructuralFaults /\ ~HasKey(before.schema_slots, slots))
            => /\ sections' = sections
               /\ schema_slots' = schema_slots
               /\ PriorSlotsUnchanged' ]_vars

\* The second read, into the new slot 1, assigned x and failed at the next
\* line, where multiline is not allowed: x holds the value in slot 1, and
\* slot 0 is as the first read left it.
C22_Witness ==
    /\ Keys(schema_slots) = <<0, 1>>
    /\ slots = 1
    /\ ~HasKey(before.schema_slots, 1)
    /\ last.outcome = "MultilineNotAllowed"
    /\ Entry(sections[<<"a">>].options[<<"x">>].slots, 1) = << SlotValue(<<"1">>) >>
    /\ Entry(schema_slots, 1) = << << <<"a">> >> >>
    /\ Entry(schema_slots, 0) = Entry(before.schema_slots, 0)
    /\ PriorSlotsUnchanged

\* ------------------------------------------------------- the slot store

\* Every key of keys is a key of od.
AllPresent(od, keys) == \A i \in 1..Len(keys) : HasKey(od, keys[i])

Distinct(keys) ==
    \A i, j \in 1..Len(keys) : keys[i] = keys[j] => i = j

\* C26: after set_slots, (1) a single value given for the resolved keys,
\* all present or to be created, is held by every one of them; (2) a list
\* of as many values as there are resolved keys, all present or to be
\* created, has value i held by key i; (3) with a resolved key missing the
\* call fails unless create_missing_slots is set, and then creates it.
C26_SetSlots ==
    call.op = "set" =>
        LET keys == call.keys
            usable == AllPresent(call.store, keys) \/ call.flag
        IN  /\ (call.values.kind \in {"value", "callable"} /\ keys # <<>> /\ usable)
                   => /\ call.outcome = "set"
                      /\ \A i \in 1..Len(keys) :
                             Get(slot_store, keys[i]) = call.values.items[1]
            /\ (call.values.kind = "list" /\ Distinct(keys) /\ usable
                    /\ Len(call.values.items) = Len(keys))
                   => /\ call.outcome = "set"
                      /\ \A i \in 1..Len(keys) :
                             Get(slot_store, keys[i]) = call.values.items[i]
            /\ ~usable => call.outcome # "set"
            /\ call.outcome = "set" => AllPresent(slot_store, keys)

\* C27: after add(keys, exist_ok), (1) keys that are all new have been
\* appended in the order given, each with the default value; (2) with a
\* key that existed and exist_ok false, the call has failed and the store
\* is what it was; (3) with exist_ok true the call succeeds, the slots that
\* existed keep their values and their places, and every key is a slot.
C27_Add ==
    call.op = "add" =>
        LET keys == call.keys
            clash == \E i \in 1..Len(keys) : HasKey(call.store, keys[i])
        IN  /\ (~clash /\ Distinct(keys))
                   => /\ call.outcome = "added"
                      /\ slot_store = call.store \o
                             [i \in 1..Len(keys) |->
                                 [k |-> keys[i], v |-> DefaultValue]]
            /\ (clash /\ ~call.flag)
                   => /\ call.outcome = "IndexError"
                      /\ slot_store = call.store
            /\ call.flag
                   => /\ call.outcome = "added"
                      /\ Len(slot_store) >= Len(call.store)
                      /\ SubSeq(slot_store, 1, Len(call.store)) = call.store
                      /\ AllPresent(slot_store, keys)

\* The integers that callers index the store with: every position of a
\* store of two slots from either end, and those beyond.
Indices == (0 - 5)..3

\* C28: for the store of n slots, iloc[i] is the slot at place i + 1 for
\* 0 <= i < n, the slot at place n + i + 1 for -n <= i < 0, and an
\* out-of-range error for every other integer i.
C28_PositionalAccess ==
    \A i \in Indices :
        LET n == Len(slot_store)
            r == ILoc(slot_store, i)
        IN  IF 0 <= i /\ i < n THEN r.ok /\ r.item = slot_store[i + 1]
            ELSE IF 0 - n <= i /\ i < 0
            THEN r.ok /\ r.item = slot_store[n + i + 1]
            ELSE ~r.ok

\* --------------------------------------------------- the slot of a read

\* C23: a read with no slot given takes an integer that is no key of the
\* schema's slot store, whatever integer and string keys the store has,
\* and appends it with an empty Structure, the slots that were there
\* keeping their places and values; a read with a key given reads into
\* that key when the store has it, and otherwise fails with SlotNotFound,
\* no slot store and no section being changed.
C23_SlotOfRead ==
    [][ /\ ReadIniNewSlot
            => /\ slots' >= 0
               /\ ~HasKey(schema_slots, slots')
               /\ schema_slots' = Append(schema_slots, [k |-> slots', v |-> <<>>])
        /\ \A key \in SlotKeyChoices :
               ReadIniInto(key)
                   => /\ schema_slots' = schema_slots
                      /\ IF HasKey(schema_slots, key)
                         THEN slots' = key /\ pc' = "reading"
                         ELSE /\ last'.outcome = "SlotNotFound"
                              /\ pc' = "idle"
                              /\ sections' = sections ]_vars

\* The store had the string key and the key 2, in that order, and a read
\* with no slot given has begun: it reads into the new key 3, the third
\* slot; the candidate 2 of range(2, 5) was taken.
C23_Witness ==
    /\ pc = "reading"
    /\ Keys(before.schema_slots) = <<NamedKey, 2>>
    /\ Keys(schema_slots) = <<NamedKey, 2, 3>>
    /\ slots = 3

\* ------------------------------------------------------------- markers

\* C29: constructing Parameters or updating a marker field fails with
\* ValueError when, in the configuration that would result, one marker is
\* given for two of the roles comment prefix, option delimiter and
\* multiline prefix, or "[" is given as a marker; and it succeeds when the
\* markers are distinct and none is "[".
C29_MarkerValidation ==
    markers.op # "none" =>
        LET g == markers.given
            twice == \/ g.comment_prefix = g.option_delimiter
                     \/ g.comment_prefix = g.multiline_prefix
                     \/ g.option_delimiter = g.multiline_prefix
            bracket == "[" \in {g.comment_prefix, g.option_delimiter,
                                g.multiline_prefix}
        IN  markers.object.ok <=> ~(twice \/ bracket)

\* ------------------------------------------------------ section headers

\* The text, trimmed, starts with "[" and ends with "]".
Bracketed(text) ==
    LET t == Strip(text)
    IN  Len(t) >= 2 /\ Head(t) = "[" /\ Last(t) = "]"

\* What is between the first "[" and the last "]" of the trimmed text,
\* without its leading "[", its trailing "]" and the blanks around the rest.
Interior(text) ==
    LET t == Strip(text)
    IN  Strip(RStripChar(LStripChar(SubSeq(t, 2, Len(t) - 1), "["), "]"))

\* C30: an entity that is not empty and for which the reader tries the
\* section name is taken as a section header exactly when, trimmed, it
\* starts with "[" and ends with "]", an empty interior included; and the
\* section it opens has the interior as its name.
C30_SectionHeader ==
    [][ entity_index' = entity_index + 1 =>
            LET c == CheckForPossibleContinuation(last'.line, current_option,
                                                  default_parameters)
            IN  (/\ Tries(c.possible, "section_name", default_parameters)
                 /\ ~IsEmptyEntity(c.text, default_parameters))
                    => /\ (last'.kind = "section_name") <=> Bracketed(c.text)
                       /\ last'.outcome = "section" =>
                              sections'[current_section'].name = Interior(c.text)
      ]_vars

\* ---------------------------------------------------------- round trip

\* C24: a schema exported in the order of the schema, then read from the
\* exported file into a new slot with the same parameters, then exported
\* with the same arguments: the read ends without a fault and the second
\* text is the first.
C24_RoundTrip ==
    (exported.round = 3 /\ exported.arguments.structure = "None")
        => /\ exported.read = "end"
           /\ exported.text.ok
           /\ exported.text.text = exported.first.text

\* ------------------------------------------------------ comment export

\* The places of a sequence whose items pass a test, in order.
PlacesOf(seq, Test(_)) ==
    LET place(i) == Test(seq[i])
    IN  SelectSeq([i \in 1..Len(seq) |-> i], place)

IsCommentEntity(entity) == entity.kind = "comment"

IsOptionEntity(entity) == entity.kind = "option"

IsCommentLine(line) == line # <<>> /\ Head(line) = ";"

IsOptionLine(line) == line # <<>> /\ Head(line) = "x"

SidesOf(string, delimiter) ==
    LET i == FirstDelimiter(string, delimiter)
    IN  [ present |-> i > 0,
          left |-> Strip(SubSeq(string, 1, i - 1)),
          right |-> Strip(SubSeq(string, i + 1, Len(string))) ]

\* The longest run of key characters that ends a text.
RECURSIVE TrailingRun(_)
TrailingRun(text) ==
    IF text = <<>> \/ ~IsKeyChar(Last(text)) THEN <<>>
    ELSE Append(TrailingRun(SubSeq(text, 1, Len(text) - 1)), Last(text))

\* A text without the characters in front of its first word character.
RECURSIVE FromFirstWord(_)
FromFirstWord(text) ==
    IF text = <<>> \/ IsWord(Head(text)) THEN text
    ELSE FromFirstWord(Tail(text))

\* C31, as the code has it: extraction splits at the first delimiter and
\* succeeds exactly when a delimiter is present and the trimmed left side
\* ends in a word character; the key is the run of word, '.', '-' and '_'
\* characters that ends the left side, from the first word character of
\* that run on; the trimmed right side is the value, None when empty.
C31_OptionExtraction ==
    returned.op = "from_string"
        => LET sides == SidesOf(returned.arguments.string,
                                returned.arguments.delimiter)
               run == TrailingRun(sides.left)
           IN  /\ returned.value.ok <=>
                      (sides.present /\ sides.left # <<>> /\ IsWord(Last(sides.left)))
               /\ returned.value.ok =>
                      /\ returned.value.key = FromFirstWord(run)
                      /\ returned.value.value =
                             (IF sides.right = <<>> THEN None ELSE sides.right)

\* C31, as stated: extraction succeeds exactly when a delimiter is present
\* and the trimmed left side ends in a run of word, '.', '-' or '_'
\* characters, and the whole run is the key.
C31_KeyIsTheRun ==
    returned.op = "from_string"
        => LET sides == SidesOf(returned.arguments.string,
                                returned.arguments.delimiter)
               run == TrailingRun(sides.left)
           IN  /\ returned.value.ok <=> (sides.present /\ run # <<>>)
               /\ returned.value.ok =>
                      /\ returned.value.key = run
                      /\ returned.value.value =
                             (IF sides.right = <<>> THEN None ELSE sides.right)

\* An extraction from a string with a second delimiter after the first, a
\* key after other text and characters in front of the key's first word
\* character.
C31_Witness ==
    /\ returned.op = "from_string"
    /\ returned.value.ok
    /\ returned.arguments.string = <<"-", "a", "=", ":">>
    /\ returned.arguments.delimiter = {"=", ":"}
    /\ returned.value.key = <<"a">>
    /\ returned.value.value = <<":">>

\* ------------------------------------------------- calls on Structures

\* The slots of the access exist in the section, and the Structure of one
\* of them holds the item.
InATarget(sec, item, access) ==
    LET keys == SlotAccess(sec.slots, access)
    IN  /\ \A i \in 1..Len(keys) : HasKey(sec.slots, keys[i])
        /\ \E i \in 1..Len(keys) : Contains(Get(sec.slots, keys[i]), item)

\* C32: add_entity with an option whose key the section has raises
\* DuplicateEntityError and leaves the sections as they were, attributes,
\* values and Structures; _set_structure_items with the default
\* exist_action for an item that a target Structure holds raises
\* DuplicateEntityError and leaves every slot's Structure as it was.
C32_DuplicatesChangeNothing ==
    [][ /\ \A s \in DOMAIN sections, S \in SlotKeyChoices, key \in CallKeys :
               (GetOption(sections[s], key) # None /\ AddOptionOf(s, key, S))
                   => /\ last'.outcome = "DuplicateEntityError"
                      /\ sections' = sections
        /\ \A s \in DOMAIN sections, access \in StructureAccesses :
               \A item \in EntitiesOf(sections[s]) :
                   (/\ InATarget(sections[s], item, access)
                    /\ SetStructureItemsOf(s, item, access))
                       => /\ last'.outcome = "DuplicateEntityError"
                          /\ \A t \in DOMAIN sections :
                                 sections'[t].slots = sections[t].slots ]_vars

\* C38: after set_option for an option of the section, every target
\* Structure that held the option holds it once, at the position given,
\* with the other items in their order, or is as it was when the position
\* is None; a Structure that did not hold it has it inserted at the
\* position, or appended when the position is None.
C38_SetOptionPlaces ==
    [][ \A s \in DOMAIN sections, key \in { <<"x">>, <<"y">> } :
            \A position \in Positions, access \in StructureAccesses :
                (/\ GetOption(sections[s], key) # None
                 /\ SetOptionOf(s, key, position, access)
                 /\ last'.outcome = "set")
                    => LET keys == SlotAccess(sections[s].slots, access)
                           item == OptionEntity(key)
                           other(entity) == entity # item
                       IN  \A i \in 1..Len(keys) :
                               LET old == Get(sections[s].slots, keys[i])
                                   new == Get(sections'[s].slots, keys[i])
                               IN  new = IF ~position.none
                                         THEN InsertAt(SelectSeq(old, other),
                                                       position, item)
                                         ELSE IF Contains(old, item) THEN old
                                         ELSE Append(old, item) ]_vars

\* ------------------------------------------------------ two reads at once

\* The schema after the read of one document and then of another, each
\* from its beginning to its end.
Serial(first, second) ==
    LET one == ReadIni(ConstructedSections, <<>>, default_parameters, first)
        two == ReadIni(one.sections, one.schema_slots, default_parameters, second)
    IN  [sections |-> two.sections, schema_slots |-> two.schema_slots]

BothDone == \A t \in DOMAIN threads.read : threads.read[t].pc = "done"

\* The schema is as one of the two serial orders of the reads leaves it.
AsSomeSerialOrder ==
    [sections |-> sections, schema_slots |-> schema_slots]
        \in { Serial(threads.read[1].document, threads.read[2].document),
              Serial(threads.read[2].document, threads.read[1].document) }

C34_DefaultsUnchanged ==
    [][ \A document \in ParameterDocuments, given \in GivenParameters :
            \A kwargs \in KeywordArguments :
                ReadIniWith(document, given, kwargs, FALSE)
                    => default_parameters' = default_parameters ]_vars

\* The slots of an export in the order of their priority.
PriorityOf(arguments) ==
    IF arguments.content.method = "None" THEN arguments.content.slots
    ELSE ExportAccess(schema_slots, arguments.content.method).access

\* The value of an option in the first slot of the priority where it has
\* one that is not None, as a string; empty without such a slot.
FirstValueOf(option, priority) ==
    LET has(i) == /\ HasKey(option.slots, priority[i])
                  /\ Get(option.slots, priority[i]).input.v # None
        places == SelectSeq([i \in 1..Len(priority) |-> i], has)
    IN  IF places = <<>> THEN <<>>
        ELSE OptionSlotValueToString(Get(option.slots, priority[places[1]]), <<>>)

\* An export in schema order: the structure "schema", or None without
\* content slots.
InSchemaOrder(arguments) ==
    \/ arguments.structure = "schema"
    \/ arguments.structure = "None" /\ arguments.content.method # "None"

SeveralSlots(arguments) ==
    /\ InSchemaOrder(arguments)
    /\ Len(PriorityOf(arguments)) > 1
    /\ \A i \in 1..Len(PriorityOf(arguments)) :
           HasKey(schema_slots, PriorityOf(arguments)[i])

FirstValuesWritten(arguments) ==
    /\ exported'.text.ok
    /\ \A v \in DOMAIN sections[<<"a">>].options :
           LET option == sections[<<"a">>].options[v]
           IN  \E i \in DOMAIN Split(exported'.text.text, EntityDelimiter) :
                   Split(exported'.text.text, EntityDelimiter)[i] =
                       option.key \o <<" ", "=", " ">>
                           \o FirstValueOf(option, PriorityOf(arguments))

C35_Step ==
    \A arguments \in ExportArguments :
        ExportWith(arguments) /\ SeveralSlots(arguments)
            => FirstValuesWritten(arguments)

\* C35: an export in schema order with several content slots, given or
\* derived from the decider method, succeeds and writes every option of
\* the declared section with the value of the first slot in the priority
\* order where the option has a value that is not None, whether or not the
\* option has an entry for every one of the slots.
C35_FirstValueWritten == [][C35_Step]_vars

\* The attribute names of the undefined sections with a name that a
\* Structure of the export's slots lists.
UndefinedHeld(arguments) ==
    { v \in DOMAIN sections :
          /\ sections[v].undefined
          /\ sections[v].name # None
          /\ \E i \in 1..Len(PriorityOf(arguments)) :
                 Contains(Get(schema_slots, PriorityOf(arguments)[i]),
                          sections[v].name) }

\* The headers of undefined sections in the text of the export.
UndefinedWritten ==
    { v \in DOMAIN sections :
          /\ sections[v].undefined
          /\ sections[v].name # None
          /\ exported'.text.ok
          /\ \E i \in DOMAIN Split(exported'.text.text, EntityDelimiter) :
                 Split(exported'.text.text, EntityDelimiter)[i] =
                     <<"[">> \o sections[v].name \o <<"]">> }

SlotsExist(arguments) ==
    \A i \in 1..Len(PriorityOf(arguments)) :
        HasKey(schema_slots, PriorityOf(arguments)[i])

C36_Step ==
    \A arguments \in ExportArguments :
        ExportWith(arguments) /\ SlotsExist(arguments)
            => IF arguments.include_undefined
               THEN UndefinedHeld(arguments) \subseteq UndefinedWritten
               ELSE UndefinedWritten = {}

\* C36: an export with include_undefined true writes every undefined
\* section that its content slots hold, in schema order and in content
\* order; with include_undefined false it writes no undefined section.
C36_UndefinedWritten == [][C36_Step]_vars

\* The set of the items of a sequence.
ItemsOf(seq) == { seq[i] : i \in DOMAIN seq }

\* The first place of an item in a sequence that holds it.
FirstPlaceOf(seq, item) ==
    CHOOSE i \in DOMAIN seq :
        seq[i] = item /\ \A j \in 1..(i - 1) : seq[j] # item

\* seq holds exactly the items of the set, each once, in the order in
\* which the sequence order holds them first.
InOrderOf(seq, items, order) ==
    /\ ItemsOf(seq) = items
    /\ \A i, j \in DOMAIN seq : i < j =>
           /\ seq[i] # seq[j]
           /\ FirstPlaceOf(order, seq[i]) < FirstPlaceOf(order, seq[j])

\* The keys of the options in a Structure, in its order.
OptionKeysOf(structure) ==
    LET options == SelectSeq(structure, LAMBDA entity : entity.kind = "option")
    IN  [i \in DOMAIN options |-> options[i].ref]

\* What get_options and get_sections are to return for the keys of a slot
\* access, given the entities each slot's Structure lists and the order of
\* the declaration.
ReturnsAsStated(value, keys, listing, declaration) ==
    /\ value.ok
    /\ IF Len(keys) = 1
       THEN InOrderOf(value.keys, ItemsOf(listing[1]), listing[1])
       ELSE InOrderOf(value.keys,
                      { item \in ItemsOf(declaration) :
                            \A i \in DOMAIN keys : item \in ItemsOf(listing[i]) },
                      declaration)

\* The names of the sections in the order of the attributes.
NamesInOrder ==
    LET present == SelectSeq(AttributeOrder, LAMBDA v : v \in DOMAIN sections)
    IN  [i \in DOMAIN present |-> sections[present[i]].name]

\* The call returned has these keys in its slot access, and the store has
\* every one of them.
Asked(op, store) ==
    /\ returned'.op = op
    /\ reads' = reads
    /\ ~returned'.arguments.access.all
    /\ \A n \in DOMAIN returned'.arguments.access.keys :
           HasKey(store, returned'.arguments.access.keys[n])

C37_Options ==
    LET sec == sections[returned'.arguments.section]
        keys == returned'.arguments.access.keys
    IN  ReturnsAsStated(returned'.value, keys,
                        [i \in DOMAIN keys |->
                             OptionKeysOf(Get(sec.slots, keys[i]))],
                        DeclaredKeys)

C37_Sections ==
    LET keys == returned'.arguments.access.keys
    IN  ReturnsAsStated(returned'.value, keys,
                        [i \in DOMAIN keys |-> Get(schema_slots, keys[i])],
                        NamesInOrder)

C37_Step ==
    /\ (returned'.op = "get_options"
            /\ Asked("get_options", sections[returned'.arguments.section].slots))
           => C37_Options
    /\ Asked("get_sections", schema_slots) => C37_Sections

\* C37: get_options and get_sections with several slot keys return exactly
\* the entities that the Structure of every one of the slots lists, in the
\* order of the declaration with the undefined ones last; with one slot key
\* they return exactly the entities of that slot's Structure in its order.
C37_SlotsIntersect == [][C37_Step]_vars

\* The names of the sections that have the slot.
NamesWithSlot(secs, key) ==
    { secs[v].name : v \in { w \in DOMAIN secs : HasKey(secs[w].slots, key) } }

\* The step of a read stored a comment or an option in the current section.
StoredInCurrent ==
    /\ pc = "reading"
    /\ current_section # None
    /\ last'.kind \in {"comment", "option"}
    /\ sections'[current_section] # sections[current_section]

\* The Structure of a slot after the step is the one before it, or the one
\* before it with one section more that it did not hold.
AppendedOnce(key) ==
    \/ Get(schema_slots', key) = Get(schema_slots, key)
    \/ \E v \in DOMAIN sections' :
           /\ sections'[v].name \notin ItemsOf(Get(schema_slots, key))
           /\ Get(schema_slots', key) =
                  Append(Get(schema_slots, key), sections'[v].name)

C39_Listed ==
    /\ \A i \in DOMAIN schema_slots' :
           ItemsOf(schema_slots'[i].v) = NamesWithSlot(sections', schema_slots'[i].k)
    /\ \A i \in DOMAIN schema_slots :
           HasKey(schema_slots', schema_slots[i].k) /\ AppendedOnce(schema_slots[i].k)

C39_Current ==
    sections[current_section].name \in ItemsOf(Get(schema_slots', slots))

C39_Step ==
    /\ C39_Listed
    /\ StoredInCurrent => C39_Current

\* C39: through every step of a read into a slot, the schema's Structure
\* of the slot lists exactly the sections that the read gave the slot, each
\* once and in the order in which their headers came first, and it lists
\* the section in which the step stored a comment or an option - the
\* section with no name included, for content in front of the first header.
C39_SchemaStructure == [][C39_Step]_vars

\* No item is at two places of the sequence.
EachOnce(seq) == \A i, j \in DOMAIN seq : seq[i] = seq[j] => i = j

\* C40: in every state that reads reach, no Structure of a slot of the
\* schema or of a section holds the same entity at two places, whatever
\* the document - one that assigns a key twice in a section or repeats a
\* header included.
C40_EachEntityOnce ==
    /\ \A i \in DOMAIN schema_slots : EachOnce(schema_slots[i].v)
    /\ \A s \in DOMAIN sections : \A i \in DOMAIN sections[s].slots :
           EachOnce(sections[s].slots[i].v)
=============================================================================
